---- MODULE Spec2Model ----
(***************************************************************************)
(* Verification model of the temperament algebra engine of                 *)
(* xenharmonic-devs/temperaments (class Temperament, BaseTemperament and   *)
(* Subgroup).                                                              *)
(*                                                                         *)
(* A temperament is a subgroup basis and a multivector `value` of the      *)
(* exterior algebra over that basis.  A multivector of an n-dimensional    *)
(* algebra is a function from the basis blades, the subsets of 1..n, to    *)
(* integers: the blade {1,3} is e13.  The integer algebra stores its       *)
(* components in an Int32Array; the components of the model stay far below *)
(* 2^31, so the wrap-around of the store never happens within the bounds.  *)
(***************************************************************************)
EXTENDS Integers, Sequences, FiniteSets, TLC

(***************************************************************************)
(* Bounds of the model.                                                    *)
(***************************************************************************)
\* Largest number of subgroup factors.
MaxDim == 3
\* Val and comma components range over -MaxC..MaxC and +-Contorted.
MaxC == 1
\* A larger component: vals with it wedge to values with a large common factor.
Contorted == 7
\* Largest number of vals or commas handed to one constructor call.
MaxInputs == 3

(***************************************************************************)
(* Arithmetic helpers (xen-dev-utils / src/src/utils.ts).                  *)
(***************************************************************************)
Abs(x) == IF x < 0 THEN -x ELSE x

Sign(x) == IF x > 0 THEN 1 ELSE IF x < 0 THEN -1 ELSE 0

Min(S) == CHOOSE x \in S : \A y \in S : x <= y

RECURSIVE Pow2(_)
Pow2(k) == IF k <= 0 THEN 1 ELSE 2 * Pow2(k - 1)

\* gcd of utils.ts, on the non-negative arguments canonize gives it.
RECURSIVE gcd(_, _)
gcd(a, b) ==
    IF a = 0 THEN b
    ELSE IF b = 0 THEN a
    ELSE LET a1 == a % b
         IN  IF a1 = 0 THEN b
             ELSE LET b1 == b % a1
                  IN  IF b1 = 0 THEN a1 ELSE gcd(a1, b1)

RECURSIVE SumF(_, _)
SumF(f, S) ==
    IF S = {} THEN 0
    ELSE LET x == CHOOSE y \in S : TRUE
         IN  f[x] + SumF(f, S \ {x})

RECURSIVE GcdF(_, _)
GcdF(f, S) ==
    IF S = {} THEN 0
    ELSE LET x == CHOOSE y \in S : TRUE
         IN  gcd(GcdF(f, S \ {x}), Abs(f[x]))

(***************************************************************************)
(* The exterior algebra (ts-geometric-algebra, all-positive metric).       *)
(***************************************************************************)
Blades(n) == SUBSET (1..n)

\* Sign of reordering the product e_S e_T into ascending order.
Sgn(S, T) ==
    IF Cardinality({p \in S \X T : p[1] > p[2]}) % 2 = 0 THEN 1 ELSE -1

Zero(n) == [S \in Blades(n) |-> 0]

\* Clifford.scalar()
Scalar(n) == [S \in Blades(n) |-> IF S = {} THEN 1 ELSE 0]

\* Clifford.pseudoscalar()
Pseudoscalar(n) == [S \in Blades(n) |-> IF S = 1..n THEN 1 ELSE 0]

\* Clifford.fromVector(v): the grade-1 element of a val or monzo, zero padded.
FromVector(n, v) ==
    [S \in Blades(n) |->
        IF Cardinality(S) = 1
        THEN LET i == CHOOSE j \in S : TRUE
             IN  IF i <= Len(v) THEN v[i] ELSE 0
        ELSE 0]

\* value.vector(): the grade-1 part as an array.
Vector(n, X) == [i \in 1..n |-> X[{i}]]

Wedge(n, X, Y) ==
    [U \in Blades(n) |->
        SumF([S \in SUBSET U |-> IF X[S] = 0 \/ Y[U \ S] = 0 THEN 0
                                  ELSE Sgn(S, U \ S) * X[S] * Y[U \ S]],
             SUBSET U)]

Dual(n, X) ==
    [S \in Blades(n) |-> IF X[(1..n) \ S] = 0 THEN 0
                          ELSE Sgn((1..n) \ S, S) * X[(1..n) \ S]]

Undual(n, X) ==
    [S \in Blades(n) |-> IF X[(1..n) \ S] = 0 THEN 0
                          ELSE Sgn(S, (1..n) \ S) * X[(1..n) \ S]]

Vee(n, X, Y) == Undual(n, Wedge(n, Dual(n, X), Dual(n, Y)))

\* value.isNil(0)
IsNil(n, X) == \A S \in Blades(n) : X[S] = 0

\* value.grades(): the grades that have a non-zero component.
Grades(n, X) == {Cardinality(S) : S \in {T \in Blades(n) : X[T] # 0}}

\* value.equals(other.value)
ValueEquals(n, X, Y) == \A S \in Blades(n) : X[S] = Y[S]

\* The order of value.ganja(): by grade, then lexicographic in the indices.
LexLess(S, T) ==
    \/ Cardinality(S) < Cardinality(T)
    \/ /\ Cardinality(S) = Cardinality(T)
       /\ S # T
       /\ Min((S \ T) \cup (T \ S)) \in S

\* The first blade, in the order of ganja(), with a non-zero component.
FirstBlade(n, X) ==
    CHOOSE S \in Blades(n) :
        /\ X[S] # 0
        /\ \A T \in Blades(n) : (X[T] # 0 /\ T # S) => LexLess(S, T)

(***************************************************************************)
(* BaseTemperament                                                         *)
(***************************************************************************)
\* getRank(): value.grades()[0]; "undefined" when the value is nil.
getRank(n, X) ==
    IF Grades(n, X) = {} THEN "undefined" ELSE Min(Grades(n, X))

\* 2^e modulo g, by repeated doubling.
RECURSIVE PowMod2(_, _)
PowMod2(e, g) == IF e = 0 THEN 1 % g ELSE (2 * PowMod2(e - 1, g)) % g

\* The exponent t with 2^(t-1) < g <= 2^t, and the b with 2^b <= k < 2^(b+1).
RECURSIVE CeilLog2(_)
CeilLog2(g) == IF g <= 1 THEN 0 ELSE 1 + CeilLog2((g + 1) \div 2)

RECURSIVE FloorLog2(_)
FloorLog2(k) == IF k <= 1 THEN 0 ELSE 1 + FloorLog2(k \div 2)

\* The rounding error of the double nearest to 1/g, as the integer d with
\* double(1/g) = (2^E + d) / (g * 2^E), E = 52 + CeilLog2(g).
RecipError(g) ==
    LET r == PowMod2(52 + CeilLog2(g), g)
    IN  IF r = 0 THEN 0 ELSE IF 2 * r < g THEN -r ELSE g - r

\* `this.value[i] *= firstSign / commonFactor` on an Int32Array: the quotient
\* firstSign / commonFactor is rounded to a double, the product with the
\* component is rounded to a double, and the store truncates it to an integer.
\* x is a multiple of commonFactor, as it is in canonize.
ScaleComponent(x, firstSign, commonFactor) ==
    IF x = 0 THEN 0
    ELSE LET k == Abs(x) \div commonFactor
             d == RecipError(commonFactor)
             b == FloorLog2(k)
             half == IF k = Pow2(b) THEN 4 ELSE 2
             below == d < 0 /\ half * k * Abs(d) > Pow2(CeilLog2(commonFactor) + b)
         IN  Sign(x) * firstSign * (IF below THEN k - 1 ELSE k)

\* The common factor and the first sign canonize computes in its first loop.
CommonFactor(n, X) == GcdF(X, Blades(n))

FirstSign(n, X) == IF IsNil(n, X) THEN 0 ELSE Sign(X[FirstBlade(n, X)])

\* canonize(): the value it leaves in place.
canonize(n, X) ==
    IF CommonFactor(n, X) = 0 THEN X
    ELSE [S \in Blades(n) |->
            ScaleComponent(X[S], FirstSign(n, X), CommonFactor(n, X))]

(***************************************************************************)
(* Temperament.fromVals and Temperament.fromCommas                         *)
(***************************************************************************)
\* fromVals without the fallback to the previous value.
FoldValKeepNil(n, value, val) == Wedge(n, value, FromVector(n, val))

\* fromCommas without the fallback to the previous value.
FoldCommaKeepNil(n, value, comma) == Vee(n, value, Dual(n, FromVector(n, comma)))

\* One iteration of the forEach of fromVals: wedge the val onto the running
\* value and fall back to the previous value when the product is nil.
FoldVal(n, value, val) ==
    LET wedged == Wedge(n, value, FromVector(n, val))
    IN  IF IsNil(n, wedged) THEN value ELSE wedged

\* One iteration of the forEach of fromCommas: vee the dual of the comma.
FoldComma(n, value, comma) ==
    LET veed == Vee(n, value, Dual(n, FromVector(n, comma)))
    IN  IF IsNil(n, veed) THEN value ELSE veed

\* The value of the temperament fromVals(vals, subgroup) returns.
RECURSIVE fromVals(_, _)
fromVals(n, vals) ==
    IF vals = << >> THEN Scalar(n)
    ELSE FoldVal(n, fromVals(n, SubSeq(vals, 1, Len(vals) - 1)), vals[Len(vals)])

\* The value of the temperament fromCommas(commas, subgroup) returns.
RECURSIVE fromCommas(_, _)
fromCommas(n, commas) ==
    IF commas = << >> THEN Pseudoscalar(n)
    ELSE FoldComma(n, fromCommas(n, SubSeq(commas, 1, Len(commas) - 1)),
                   commas[Len(commas)])

(***************************************************************************)
(* State                                                                   *)
(***************************************************************************)
VARIABLES
    temps,   \* the Temperament objects: [live, basis, ref], ref naming the cell of `value`
    cells,   \* the algebra elements the temperaments hold
    build,   \* the constructor call in progress: its position and running value
    hist,    \* history of each object: how it was made, the value before its last canonize
    call,    \* the last completed equals / join / meet / Subgroup / dot call, its arguments and outcome
    given,   \* the data the caller holds: a subgroup with vals and commas over it
    search,  \* the factorization, generator or prefix call in progress or completed
    algebras \* ALGEBRA_CACHES, the algebras built so far and the calls that asked for them

vars == <<temps, cells, build, hist, call, given, search, algebras>>

Slots == {"A", "B", "R"}

\* new Subgroup(5), new Subgroup(3), ...: the prime limits up to MaxDim factors.
PRIMES == <<2, 3, 5, 7, 11>>

\* new Fraction(b): a numerator and a denominator in lowest terms.
NewFraction(b) ==
    LET g == gcd(Abs(b[1]), Abs(b[2]))
    IN  <<b[1] \div g, b[2] \div g>>

\* new Subgroup(basis) of an array of factors: this.basis. The factors of the
\* model are positive and different from 1, so the constructor returns.
Subgroup(basis) == [i \in 1..Len(basis) |-> NewFraction(basis[i])]

PrimeLimits == {Subgroup([i \in 1..n |-> <<PRIMES[i], 1>>]) : n \in 0..MaxDim}

\* The vals and the monzos of commas of an n-factor subgroup.
Vectors(n) == [1..n -> -MaxC..MaxC]

\* The same with contorted components.
ContortedVectors(n) == [1..n -> (-MaxC..MaxC) \cup {Contorted, -Contorted}]

NoTemp == [live |-> FALSE, basis |-> << >>, ref |-> "A"]

NoHist == [made |-> "none", supplied |-> 0, accepted |-> 0, canonized |-> 0,
           pre |-> Zero(0)]

Idle == [pc |-> "idle", basis |-> << >>, value |-> Zero(0), prev |-> Zero(0),
         raw |-> Zero(0), supplied |-> 0, accepted |-> 0]

NoCall == [op |-> "none", outcome |-> "none"]

NoGiven == [basis |-> << >>, vals |-> << >>, commas |-> << >>]

NoSearch == [pc |-> "idle"]

\* The algebra types, and the dimensions asked for.
AlgebraTypes == {"int32", "float64", "PGA"}

MaxAlgebraDim == 2

\* ALGEBRA_CACHES at module load: three empty maps (0: no algebra under the
\* key; the algebras built are numbered from 1). No call has been made.
NoAlgebras ==
    [caches |-> [t \in AlgebraTypes |-> [d \in 0..MaxAlgebraDim |-> 0]],
     made |-> 0, log |-> << >>]

\* No temperament has been constructed.
NoObjects ==
    /\ temps = [s \in Slots |-> NoTemp]
    /\ cells = [s \in Slots |-> Zero(0)]
    /\ build = Idle
    /\ hist = [s \in Slots |-> NoHist]
    /\ call = NoCall
    /\ search = NoSearch
    /\ algebras = NoAlgebras

Init == NoObjects /\ given = NoGiven

Dim(s) == Len(temps[s].basis)

Value(s) == cells[temps[s].ref]

(***************************************************************************)
(* The constructors, one forEach iteration per step.                       *)
(***************************************************************************)
\* fromVals(vals, subgroup) up to its loop: value = Clifford.scalar().
CallFromVals(basis) ==
    /\ build.pc = "idle"
    /\ \A s \in Slots : ~temps[s].live
    /\ build' = [Idle EXCEPT !.pc = "fromVals", !.basis = basis,
                             !.value = Scalar(Len(basis)),
                             !.prev = Scalar(Len(basis)),
                             !.raw = Scalar(Len(basis))]
    /\ UNCHANGED <<temps, cells, hist, call, given, algebras, search>>

\* fromCommas starting its fold from the scalar, as fromVals does.
CallFromCommasAtScalar(basis) ==
    /\ build.pc = "idle"
    /\ \A s \in Slots : ~temps[s].live
    /\ build' = [Idle EXCEPT !.pc = "fromCommas", !.basis = basis,
                             !.value = Scalar(Len(basis)),
                             !.prev = Scalar(Len(basis)),
                             !.raw = Scalar(Len(basis))]
    /\ UNCHANGED <<temps, cells, hist, call, given, algebras, search>>

\* fromCommas(commas, subgroup) up to its loop: value = Clifford.pseudoscalar().
CallFromCommas(basis) ==
    /\ build.pc = "idle"
    /\ \A s \in Slots : ~temps[s].live
    /\ build' = [Idle EXCEPT !.pc = "fromCommas", !.basis = basis,
                             !.value = Pseudoscalar(Len(basis)),
                             !.prev = Pseudoscalar(Len(basis)),
                             !.raw = Pseudoscalar(Len(basis))]
    /\ UNCHANGED <<temps, cells, hist, call, given, algebras, search>>

\* The next val of the list: `raw` records the wedge product as computed.
StepFromVals(val) ==
    /\ build.pc = "fromVals"
    /\ build.supplied < MaxInputs
    /\ LET n == Len(build.basis)
           next == FoldVal(n, build.value, val)
           raw == Wedge(n, build.value, FromVector(n, val))
       IN  build' = [build EXCEPT !.value = next, !.prev = build.value,
                                  !.raw = raw,
                                  !.supplied = @ + 1,
                                  !.accepted = IF IsNil(n, raw) THEN @ ELSE @ + 1]
    /\ UNCHANGED <<temps, cells, hist, call, given, algebras, search>>

\* The next comma of the list.
StepFromCommas(comma) ==
    /\ build.pc = "fromCommas"
    /\ build.supplied < MaxInputs
    /\ LET n == Len(build.basis)
           next == FoldComma(n, build.value, comma)
           raw == Vee(n, build.value, Dual(n, FromVector(n, comma)))
       IN  build' = [build EXCEPT !.value = next, !.prev = build.value,
                                  !.raw = raw,
                                  !.supplied = @ + 1,
                                  !.accepted = IF IsNil(n, raw) THEN @ ELSE @ + 1]
    /\ UNCHANGED <<temps, cells, hist, call, given, algebras, search>>

\* return new Temperament(Clifford, value, subgroup_): a new object in slot s.
Return(s) ==
    /\ build.pc \in {"fromVals", "fromCommas"}
    /\ temps' = [temps EXCEPT ![s] = [live |-> TRUE, basis |-> build.basis, ref |-> s]]
    /\ cells' = [cells EXCEPT ![s] = build.value]
    /\ hist' = [hist EXCEPT ![s] = [made |-> build.pc, supplied |-> build.supplied,
                                    accepted |-> build.accepted, canonized |-> 0,
                                    pre |-> build.value]]
    /\ build' = Idle
    /\ UNCHANGED <<call, given, algebras, search>>

\* Largest number of canonize() calls the history counts on one object.
MaxCanonize == 2

\* temps[s].canonize(): rescales the value in place.
Canonize(s) ==
    /\ temps[s].live
    /\ build.pc = "idle"
    /\ hist[s].canonized < MaxCanonize
    /\ cells' = [cells EXCEPT ![temps[s].ref] = canonize(Dim(s), Value(s))]
    /\ hist' = [hist EXCEPT ![s].canonized = @ + 1, ![s].pre = Value(s)]
    /\ UNCHANGED <<temps, build, call, given, algebras, search>>

\* The caller drops its objects and starts over.
Discard ==
    /\ build.pc = "idle"
    /\ \E s \in Slots : temps[s].live
    /\ temps' = [s \in Slots |-> NoTemp]
    /\ cells' = [s \in Slots |-> Zero(0)]
    /\ hist' = [s \in Slots |-> NoHist]
    /\ call' = NoCall
    /\ search' = NoSearch
    /\ UNCHANGED <<build, given, algebras>>

Next ==
    \/ \E b \in PrimeLimits : CallFromVals(b)
    \/ \E b \in PrimeLimits : CallFromCommas(b)
    \/ \E v \in Vectors(Len(build.basis)) : StepFromVals(v)
    \/ \E c \in Vectors(Len(build.basis)) : StepFromCommas(c)
    \/ Return("A")
    \/ Canonize("A")
    \/ Discard

Spec == Init /\ [][Next]_vars

(***************************************************************************)
(* The constructors as whole calls, for the specifications about what is   *)
(* done with the temperaments they return.                                 *)
(***************************************************************************)
\* The number of vals of the list that fromVals accepts.
RECURSIVE AcceptedVals(_, _)
AcceptedVals(n, vals) ==
    IF vals = << >> THEN 0
    ELSE LET front == SubSeq(vals, 1, Len(vals) - 1)
             raw == Wedge(n, fromVals(n, front), FromVector(n, vals[Len(vals)]))
         IN  AcceptedVals(n, front) + (IF IsNil(n, raw) THEN 0 ELSE 1)

\* The number of commas of the list that fromCommas accepts.
RECURSIVE AcceptedCommas(_, _)
AcceptedCommas(n, commas) ==
    IF commas = << >> THEN 0
    ELSE LET front == SubSeq(commas, 1, Len(commas) - 1)
             raw == Vee(n, fromCommas(n, front),
                        Dual(n, FromVector(n, commas[Len(commas)])))
         IN  AcceptedCommas(n, front) + (IF IsNil(n, raw) THEN 0 ELSE 1)

\* temps[s] = Temperament.fromVals(vals, basis)
NewFromVals(s, basis, vals) ==
    /\ build.pc = "idle"
    /\ ~temps[s].live
    /\ temps' = [temps EXCEPT ![s] = [live |-> TRUE, basis |-> basis, ref |-> s]]
    /\ cells' = [cells EXCEPT ![s] = fromVals(Len(basis), vals)]
    /\ hist' = [hist EXCEPT ![s] = [made |-> "fromVals", supplied |-> Len(vals),
                                    accepted |-> AcceptedVals(Len(basis), vals),
                                    canonized |-> 0,
                                    pre |-> fromVals(Len(basis), vals)]]
    /\ UNCHANGED <<build, call, given, algebras, search>>

\* temps[s] = Temperament.fromCommas(commas, basis)
NewFromCommas(s, basis, commas) ==
    /\ build.pc = "idle"
    /\ ~temps[s].live
    /\ temps' = [temps EXCEPT ![s] = [live |-> TRUE, basis |-> basis, ref |-> s]]
    /\ cells' = [cells EXCEPT ![s] = fromCommas(Len(basis), commas)]
    /\ hist' = [hist EXCEPT ![s] = [made |-> "fromCommas", supplied |-> Len(commas),
                                    accepted |-> AcceptedCommas(Len(basis), commas),
                                    canonized |-> 0,
                                    pre |-> fromCommas(Len(basis), commas)]]
    /\ UNCHANGED <<build, call, given, algebras, search>>

\* The lists of at most k vectors of the set V.
RECURSIVE ListsUpTo(_, _)
ListsUpTo(V, k) ==
    IF k = 0 THEN {<< >>}
    ELSE ListsUpTo(V, k - 1) \cup
         {Append(l, v) : l \in {m \in ListsUpTo(V, k - 1) : Len(m) = k - 1}, v \in V}

(***************************************************************************)
(* SpecCanon: temperaments of contorted vals and commas, canonized.        *)
(***************************************************************************)
\* Largest number of vals or commas of a temperament that is canonized.
MaxCanonInputs == 2

\* The vals and commas canonized: steps 0 and 1 and contorted steps up and down.
CanonVectors(n) == [1..n -> {-Contorted, 0, 1, Contorted}]

NextCanon ==
    \/ \E b \in PrimeLimits :
         \E vals \in ListsUpTo(CanonVectors(Len(b)), MaxCanonInputs) :
            NewFromVals("A", b, vals)
    \/ \E b \in PrimeLimits :
         \E commas \in ListsUpTo(CanonVectors(Len(b)), MaxCanonInputs) :
            NewFromCommas("A", b, commas)
    \/ Canonize("A")
    \/ Discard

SpecCanon == Init /\ [][NextCanon]_vars

(***************************************************************************)
(* equals                                                                  *)
(***************************************************************************)
\* Fraction.equals of fraction.js
FractionEquals(a, b) == a[1] * b[2] = b[1] * a[2]

\* Array.prototype.reduce((a, b) => a && b) without an initial value: the
\* conjunction of the elements, and a TypeError on an empty array.
ReduceAnd(bools) ==
    IF Len(bools) = 0 THEN "TypeError"
    ELSE IF \A i \in 1..Len(bools) : bools[i] THEN "true" ELSE "false"

\* Subgroup.equals(other)
SubgroupEquals(basis, other) ==
    IF Len(basis) # Len(other) THEN "false"
    ELSE ReduceAnd([i \in 1..Len(basis) |-> FractionEquals(basis[i], other[i])])

\* BaseTemperament.equals(other): this.value.equals(other.value)
BaseEquals(n, value, other) ==
    IF ValueEquals(n, value, other) THEN "true" ELSE "false"

\* Temperament.equals(other), on the bases and values of the two objects.
TemperamentEquals(basis, value, otherBasis, otherValue) ==
    LET same == SubgroupEquals(basis, otherBasis)
    IN  IF same = "TypeError" THEN "TypeError"
        ELSE IF same = "false" THEN "false"
        ELSE BaseEquals(Len(basis), value, otherValue)

\* temps[a].equals(temps[b])
Equals(a, b) ==
    /\ build.pc = "idle"
    /\ temps[a].live /\ temps[b].live
    /\ call.op = "none"
    /\ call' = [op |-> "equals",
                outcome |-> TemperamentEquals(temps[a].basis, Value(a),
                                              temps[b].basis, Value(b))]
    /\ UNCHANGED <<temps, cells, build, hist, given, algebras, search>>

(***************************************************************************)
(* SpecEq: two temperaments over bases of up to MaxEqDim fractions,        *)
(* compared by A.equals(B).                                                *)
(***************************************************************************)
MaxEqDim == 2

\* Largest numerator and denominator of a basis factor given to new Subgroup.
MaxFactor == 4

\* The factors given: positive fractions other than 1, in any terms.
FactorInputs ==
    {f \in (2..MaxFactor) \X (1..2) : f[1] # f[2]}

EqBases ==
    UNION {[1..n -> FactorInputs] : n \in 0..MaxEqDim}

\* Largest number of vals or commas of a temperament that is compared.
MaxEqInputs == 1

\* The vals and commas of the temperaments compared: steps 0 to MaxC.
EqVectors(n) == [1..n -> 0..MaxC]

NextEq ==
    \/ \E s \in {"A", "B"}, b \in EqBases :
         \E vals \in ListsUpTo(EqVectors(Len(b)), MaxEqInputs) :
            NewFromVals(s, Subgroup(b), vals)
    \/ \E s \in {"A", "B"}, b \in EqBases :
         \E commas \in ListsUpTo(EqVectors(Len(b)), MaxEqInputs) :
            NewFromCommas(s, Subgroup(b), commas)
    \/ Equals("A", "B")
    \/ Discard

SpecEq == Init /\ [][NextEq]_vars

(***************************************************************************)
(* SpecEquiv: one temperament given by two vals and by a comma of their    *)
(* common kernel, constructed both ways and canonized.                     *)
(***************************************************************************)
EquivDim == 3

\* dot(a, b) of monzo.ts
Dot(a, b) == SumF([i \in 1..Len(a) |-> a[i] * b[i]], 1..Len(a))

\* The vals of the subgroup: non-negative steps, contorted ones among them.
EquivVals == [1..EquivDim -> {0, 1, Contorted}]

\* V and W are linearly independent vals: their wedge product is not nil.
Independent(n, V, W) == ~IsNil(n, Wedge(n, FromVector(n, V), FromVector(n, W)))

\* Two linearly independent vals and a comma that spans their common kernel.
SameTemperament ==
    {[basis |-> Subgroup([i \in 1..EquivDim |-> <<PRIMES[i], 1>>]),
      vals |-> <<t[1], t[2]>>, commas |-> <<t[3]>>] :
        t \in {u \in EquivVals \X EquivVals \X ContortedVectors(EquivDim) :
                 /\ Independent(EquivDim, u[1], u[2])
                 /\ \E i \in 1..EquivDim : u[3][i] # 0
                 /\ Dot(u[3], u[1]) = 0
                 /\ Dot(u[3], u[2]) = 0}}

InitEquiv == NoObjects /\ given \in SameTemperament

NextEquiv ==
    \/ NewFromVals("A", given.basis, given.vals)
    \/ NewFromCommas("B", given.basis, given.commas)
    \/ Canonize("A")
    \/ Canonize("B")
    \/ Discard

SpecEquiv == InitEquiv /\ [][NextEquiv]_vars

(***************************************************************************)
(* Join and meet. They are computed on float64 copies of the values: a     *)
(* float64 element is modelled exactly, as integer numerators `num` over   *)
(* one positive denominator `den`.                                         *)
(***************************************************************************)
\* new Clifford(this.value) of the float64 algebra: a copy of the components.
Float(X) == [num |-> X, den |-> 1]

GradeBlades(n, g) == {S \in Blades(n) : Cardinality(S) = g}

\* The blades of a set in the order of LexLess.
RECURSIVE SortBlades(_)
SortBlades(Bs) ==
    IF Bs = {} THEN << >>
    ELSE LET first == CHOOSE S \in Bs : \A T \in Bs \ {S} : LexLess(S, T)
         IN  <<first>> \o SortBlades(Bs \ {first})

\* Vectors that span the subspace of the blade X: its contractions with the
\* basis blades one grade below.
Generators(n, X) ==
    LET g == Min(Grades(n, X))
    IN  IF g = 0 THEN {}
        ELSE {[i \in 1..n |-> IF i \in T \/ X[T \cup {i}] = 0 THEN 0
                               ELSE Sgn(T, {i}) * X[T \cup {i}]] :
                 T \in GradeBlades(n, g - 1)}

\* J extended by those of the vectors vs that are outside its subspace.
RECURSIVE JoinFold(_, _, _)
JoinFold(n, J, vs) ==
    IF vs = {} THEN J
    ELSE LET v == CHOOSE u \in vs : TRUE
             W == Wedge(n, J, FromVector(n, v))
         IN  JoinFold(n, IF IsNil(n, W) THEN J ELSE W, vs \ {v})

\* X divided by the gcd of its components.
Primitive(n, X) ==
    LET g == GcdF(X, Blades(n))
    IN  [S \in Blades(n) |-> X[S] \div g]

\* The scale the library leaves a blade in: scale[1] / scale[2] times X.
Scaled(n, X, scale) ==
    [num |-> [S \in Blades(n) |-> scale[1] * X[S]], den |-> scale[2]]

\* x.meetJoin(y, threshold) = [meet, join]: the blade of the intersection and
\* the blade of the sum of the subspaces of the blades x and y, each up to
\* a scale that the caller does not rely on.
meetJoin(n, x, y, threshold, scale) ==
    LET join == JoinFold(n, x.num, Generators(n, y.num))
        meet == Undual(n, JoinFold(n, Dual(n, x.num),
                                   Generators(n, Dual(n, y.num))))
    IN  <<Scaled(n, Primitive(n, meet), scale),
          Scaled(n, Primitive(n, join), scale)>>

\* persistence = 100 and threshold = 1e-4, the defaults of the parameters.
DefaultPersistence == 100

DefaultThreshold == <<1, 10000>>

\* Math.round(p / q) for q > 0: the nearest integer, halves rounded up.
Round(p, q) == (2 * p + q) \div (2 * q)

\* The first loop of rescaleValue from index i on: the component of the
\* smallest magnitude above the threshold, the first such in the order of
\* the blade. 0 stands for Infinity, no component found.
RECURSIVE MinValue(_, _, _, _, _)
MinValue(blade, den, threshold, i, minValue) ==
    IF i > Len(blade) THEN minValue
    ELSE LET above == Abs(blade[i]) * threshold[2] > threshold[1] * den
             less == minValue = 0 \/ Abs(blade[i]) < Abs(minValue)
         IN  MinValue(blade, den, threshold, i + 1,
                      IF above /\ less THEN blade[i] ELSE minValue)

\* The inner loop: with n = j / minValue every component times n is within
\* the threshold of an integer. blade[i] * n = blade[i] * j / minValue.
Good(blade, minValue, j, threshold) ==
    \A i \in 1..Len(blade) :
        LET p == blade[i] * j * Sign(minValue)
            q == Abs(minValue)
        IN  ~(Abs(p - Round(p, q) * q) * threshold[2] > threshold[1] * q)

\* The outer loop from j on: the first good j below persistence, 0 if none.
RECURSIVE Search(_, _, _, _, _)
Search(blade, minValue, j, persistence, threshold) ==
    IF j >= persistence THEN 0
    ELSE IF Good(blade, minValue, j, threshold) THEN j
    ELSE Search(blade, minValue, j + 1, persistence, threshold)

\* this.rescaleValue(value, persistence, threshold): an error, or the
\* integer element of the components rounded at the normalizer found.
rescaleValue(n, value, persistence, threshold) ==
    LET grade == Min(Grades(n, value.num))
        index == SortBlades(GradeBlades(n, grade))
        blade == [i \in 1..Len(index) |-> value.num[index[i]]]
        minValue == MinValue(blade, value.den, threshold, 1, 0)
        j == IF minValue = 0
             THEN (IF persistence > 1 THEN 1 ELSE 0)
             ELSE Search(blade, minValue, 1, persistence, threshold)
    IN  IF j = 0
        THEN [error |-> "Failed to rescale. Try increasing persistence.",
              value |-> Zero(n)]
        ELSE [error |-> "none",
              value |-> [S \in Blades(n) |->
                            IF Cardinality(S) # grade \/ minValue = 0 THEN 0
                            ELSE Round(value.num[S] * j * Sign(minValue),
                                       Abs(minValue))]]

\* this.valJoin(other, persistence, threshold)
valJoin(n, this, other, persistence, threshold, scale) ==
    LET join == meetJoin(n, Float(this), Float(other), threshold, scale)[2]
    IN  rescaleValue(n, join, persistence, threshold)

\* kernelMeet calling valJoin with the default persistence and threshold.
kernelMeetDefaults(n, this, other, persistence, threshold, scale) ==
    valJoin(n, this, other, DefaultPersistence, DefaultThreshold, scale)

\* this.kernelMeet(other, persistence, threshold)
kernelMeet(n, this, other, persistence, threshold, scale) ==
    valJoin(n, this, other, persistence, threshold, scale)

\* this.valMeet(other, persistence, threshold)
valMeet(n, this, other, persistence, threshold, scale) ==
    LET meet == meetJoin(n, Float(this), Float(other), threshold, scale)[1]
    IN  rescaleValue(n, meet, persistence, threshold)

\* this.kernelJoin(other, persistence, threshold)
kernelJoin(n, this, other, persistence, threshold, scale) ==
    valMeet(n, this, other, persistence, threshold, scale)

JoinOps == {"valJoin", "kernelMeet", "valMeet", "kernelJoin"}

\* The call temps[a].op(temps[b], persistence, threshold) can be made.
CanCall(a, b, r) ==
    /\ build.pc = "idle"
    /\ call.op = "none"
    /\ temps[a].live /\ temps[b].live /\ ~temps[r].live
    /\ Dim(a) = Dim(b)

\* The call as completed: its arguments as they were when it was made, the
\* scale the library worked in, and what came out.
Completed(op, a, b, res, persistence, threshold, scale) ==
    [op |-> op,
     outcome |-> IF res.error = "none" THEN "returned" ELSE res.error,
     persistence |-> persistence, threshold |-> threshold, scale |-> scale,
     this |-> [basis |-> temps[a].basis, value |-> Value(a)],
     other |-> [basis |-> temps[b].basis, value |-> Value(b)],
     value |-> res.value]

\* return new Temperament(this.algebra, value, this.subgroup) as temps[r],
\* the value held in the cell `ref`; a throw leaves no new object.
ReturnNew(op, a, r, ref, res) ==
    IF res.error = "none"
    THEN /\ temps' = [temps EXCEPT ![r] = [live |-> TRUE,
                                           basis |-> Subgroup(temps[a].basis),
                                           ref |-> ref]]
         /\ cells' = [cells EXCEPT ![ref] = res.value]
         /\ hist' = [hist EXCEPT ![r] = [made |-> op, supplied |-> 0,
                                         accepted |-> 0, canonized |-> 0,
                                         pre |-> res.value]]
    ELSE UNCHANGED <<temps, cells, hist>>

\* valJoin writing the join into the value of `this` and returning it.
ValJoinInPlace(a, b, r, persistence, threshold, scale) ==
    /\ CanCall(a, b, r)
    /\ LET res == valJoin(Dim(a), Value(a), Value(b), persistence, threshold, scale)
       IN  /\ call' = Completed("valJoin", a, b, res, persistence, threshold, scale)
           /\ ReturnNew("valJoin", a, r, temps[a].ref, res)
    /\ UNCHANGED <<build, given, algebras, search>>

\* temps[r] = temps[a].valJoin(temps[b], persistence, threshold)
ValJoin(a, b, r, persistence, threshold, scale) ==
    /\ CanCall(a, b, r)
    /\ LET res == valJoin(Dim(a), Value(a), Value(b), persistence, threshold, scale)
       IN  /\ call' = Completed("valJoin", a, b, res, persistence, threshold, scale)
           /\ ReturnNew("valJoin", a, r, r, res)
    /\ UNCHANGED <<build, given, algebras, search>>

\* temps[r] = temps[a].kernelMeet(temps[b], persistence, threshold)
KernelMeet(a, b, r, persistence, threshold, scale) ==
    /\ CanCall(a, b, r)
    /\ LET res == kernelMeet(Dim(a), Value(a), Value(b), persistence, threshold, scale)
       IN  /\ call' = Completed("kernelMeet", a, b, res, persistence, threshold, scale)
           /\ ReturnNew("kernelMeet", a, r, r, res)
    /\ UNCHANGED <<build, given, algebras, search>>

\* temps[r] = temps[a].valMeet(temps[b], persistence, threshold)
ValMeet(a, b, r, persistence, threshold, scale) ==
    /\ CanCall(a, b, r)
    /\ LET res == valMeet(Dim(a), Value(a), Value(b), persistence, threshold, scale)
       IN  /\ call' = Completed("valMeet", a, b, res, persistence, threshold, scale)
           /\ ReturnNew("valMeet", a, r, r, res)
    /\ UNCHANGED <<build, given, algebras, search>>

\* temps[r] = temps[a].kernelJoin(temps[b], persistence, threshold)
KernelJoin(a, b, r, persistence, threshold, scale) ==
    /\ CanCall(a, b, r)
    /\ LET res == kernelJoin(Dim(a), Value(a), Value(b), persistence, threshold, scale)
       IN  /\ call' = Completed("kernelJoin", a, b, res, persistence, threshold, scale)
           /\ ReturnNew("kernelJoin", a, r, r, res)
    /\ UNCHANGED <<build, given, algebras, search>>

(***************************************************************************)
(* SpecJoin: two temperaments of one subgroup of JoinDim primes, each of   *)
(* at most MaxJoinInputs vals or commas, joined or met; the result is      *)
(* canonized.                                                              *)
(***************************************************************************)
JoinDim == 3

MaxJoinInputs == 1

\* A persistence too small for some of the joins.
SmallPersistence == 2

Persistences == {SmallPersistence, DefaultPersistence}

Thresholds == {DefaultThreshold}

\* Scales of the library's results: 1 and -1/2.
Scales == {<<1, 1>>, <<-1, 2>>}

JoinBasis == Subgroup([i \in 1..JoinDim |-> <<PRIMES[i], 1>>])

\* The vals and commas joined: steps 0 and 1, at most one of them contorted.
JoinVectors ==
    {v \in [1..JoinDim -> {0, 1, Contorted}] :
        Cardinality({i \in 1..JoinDim : v[i] = Contorted}) <= 1}

NextJoin ==
    \/ \E s \in {"A", "B"}, vals \in ListsUpTo(JoinVectors, MaxJoinInputs) :
          NewFromVals(s, JoinBasis, vals)
    \/ \E s \in {"A", "B"}, commas \in ListsUpTo(JoinVectors, MaxJoinInputs) :
          NewFromCommas(s, JoinBasis, commas)
    \/ \E p \in Persistences, t \in Thresholds, c \in Scales :
          ValJoin("A", "B", "R", p, t, c)
    \/ \E p \in Persistences, t \in Thresholds, c \in Scales :
          KernelMeet("A", "B", "R", p, t, c)
    \/ \E p \in Persistences, t \in Thresholds, c \in Scales :
          ValMeet("A", "B", "R", p, t, c)
    \/ \E p \in Persistences, t \in Thresholds, c \in Scales :
          KernelJoin("A", "B", "R", p, t, c)
    \/ hist["R"].canonized = 0 /\ Canonize("R")
    \/ Discard

SpecJoin == Init /\ [][NextJoin]_vars

(***************************************************************************)
(* valFactorize                                                            *)
(***************************************************************************)
\* The denominator of the logarithms below.
LogScale == 1000000

\* this.getJip('nats') divided by its first entry, for the primes 2, 3, 5:
\* log 2 / log 2, log 3 / log 2, log 5 / log 2, log 7 / log 2 in millionths.
normalizedMapping == <<1000000, 1584963, 2321928, 2807355>>

\* normalizedMapping.map(m => Math.round(m * divisions))
PatentBase(n, divisions) ==
    [i \in 1..n |-> Round(normalizedMapping[i] * divisions, LogScale)]

\* wartVariants(val, radius): the inner generator vary(base, index) yields
\* the variants of the components from `index` on, each from -radius to
\* radius, the earlier index varying slowest. VaryFrom is its for loop from i.
RECURSIVE vary(_, _, _)
RECURSIVE VaryFrom(_, _, _, _)
vary(base, index, radius) ==
    IF index > Len(base) THEN <<base>>
    ELSE VaryFrom(base, index, radius, -radius)

VaryFrom(base, index, radius, i) ==
    IF i > radius THEN << >>
    ELSE vary([base EXCEPT ![index] = @ + i], index + 1, radius)
            \o VaryFrom(base, index, radius, i + 1)

\* The equave, component 1, is not varied.
wartVariants(val, radius) == vary(val, 2, radius)

\* variant.reduce(gcd)
RECURSIVE ReduceGcd(_)
ReduceGcd(variant) ==
    IF Len(variant) = 1 THEN variant[1]
    ELSE gcd(Abs(ReduceGcd(SubSeq(variant, 1, Len(variant) - 1))),
             Abs(variant[Len(variant)]))

\* value.neg()
Neg(n, X) == [S \in Blades(n) |-> -X[S]]

\* pushAndWedge returning as soon as the accumulation has the grade of the
\* value, without comparing the two.
pushAndWedgeByRank(n, value, hyperwedge, factors, candidate) ==
    LET c == FromVector(n, candidate)
        next == Wedge(n, hyperwedge, c)
    IN  IF IsNil(n, Wedge(n, value, c)) /\ ~IsNil(n, next)
        THEN [hyperwedge |-> next, factors |-> Append(factors, candidate),
              done |-> Grades(n, next) = Grades(n, value)]
        ELSE [hyperwedge |-> hyperwedge, factors |-> factors, done |-> FALSE]

\* pushAndWedge(candidate): the accumulation and the factors after the call,
\* and what it returns.
pushAndWedge(n, value, hyperwedge, factors, candidate) ==
    LET c == FromVector(n, candidate)
        next == Wedge(n, hyperwedge, c)
    IN  IF IsNil(n, Wedge(n, value, c)) /\ ~IsNil(n, next)
        THEN [hyperwedge |-> next, factors |-> Append(factors, candidate),
              done |-> \/ ValueEquals(n, next, value)
                       \/ ValueEquals(n, next, Neg(n, value))]
        ELSE [hyperwedge |-> hyperwedge, factors |-> factors, done |-> FALSE]

\* The strategies whose candidates are generated from the divisions by
\* rounding the just intonation point, and the others, whose candidates come
\* from the tempered mapping, the generalized patent vals or the warts.
Strategies == {"patent", "mapping", "GPV", "GM", "warts"}

\* this.valFactorize(minDivisions, maxDivisions, wartRadius, strategy)
\* up to its loops.
ValFactorize(s, minDivisions, maxDivisions, wartRadius, strategy) ==
    /\ build.pc = "idle"
    /\ temps[s].live
    /\ search.pc = "idle"
    /\ search' = [pc |-> "valFactorize", this |-> s, strategy |-> strategy,
                  minDivisions |-> minDivisions, maxDivisions |-> maxDivisions,
                  wartRadius |-> wartRadius,
                  divisions |-> minDivisions, variant |-> 1, tried |-> 0,
                  hyperwedge |-> Scalar(Dim(s)), factors |-> << >>]
    /\ UNCHANGED <<temps, cells, build, hist, call, given, algebras>>

\* The search after pushAndWedge(candidate) returned r, the loops moving on
\* to the variant and divisions given.
Pushed(r, divisions, variant) ==
    [search EXCEPT !.pc = IF r.done THEN "returned" ELSE "valFactorize",
                   !.hyperwedge = r.hyperwedge, !.factors = r.factors,
                   !.divisions = divisions, !.variant = variant,
                   !.tried = @ + 1]

\* One iteration of the inner loop of the strategy 'patent': the next
\* variant of the patent val of the current divisions.
PatentVariant ==
    /\ search.pc = "valFactorize"
    /\ search.strategy = "patent"
    /\ search.divisions <= search.maxDivisions
    /\ \E variants \in {wartVariants(PatentBase(Dim(search.this),
                                                 search.divisions),
                                      search.wartRadius)} :
       LET s == search.this
           n == Dim(s)
           variant == variants[search.variant]
           last == search.variant = Len(variants)
           divisions == IF last THEN search.divisions + 1 ELSE search.divisions
           k == IF last THEN 1 ELSE search.variant + 1
       IN  search' =
             IF ReduceGcd(variant) # 1
             THEN [search EXCEPT !.divisions = divisions, !.variant = k]
             ELSE Pushed(pushAndWedge(n, Value(s), search.hyperwedge,
                                      search.factors, variant),
                         divisions, k)
    /\ UNCHANGED <<temps, cells, build, hist, call, given, algebras>>

\* Largest number of candidates of a strategy other than 'patent'.
MaxTries == 2

\* One iteration of the inner loop of another strategy, the candidate being
\* whatever val its generator yields next; 'warts' does not skip the vals
\* with a common factor.
OtherVariant(variant) ==
    /\ search.pc = "valFactorize"
    /\ search.strategy # "patent"
    /\ search.tried < MaxTries
    /\ LET s == search.this
       IN  search' =
             IF search.strategy # "warts" /\ ReduceGcd(variant) # 1
             THEN [search EXCEPT !.tried = @ + 1]
             ELSE Pushed(pushAndWedge(Dim(s), Value(s), search.hyperwedge,
                                      search.factors, variant),
                         search.divisions, search.variant)
    /\ UNCHANGED <<temps, cells, build, hist, call, given, algebras>>

\* The loops end: throw new Error('Val factorization not found within the
\* search space').
NotFound ==
    /\ search.pc = "valFactorize"
    /\ search.strategy = "patent" => search.divisions > search.maxDivisions
    /\ search' = [search EXCEPT !.pc = "Val factorization not found within the search space"]
    /\ UNCHANGED <<temps, cells, build, hist, call, given, algebras>>

(***************************************************************************)
(* SpecFactor: temperaments over 2.3.5 factorized into vals.               *)
(***************************************************************************)
\* 81/80 and the commas of the unit monzos of 5 and 3.
FactorCommas ==
    {<< >>, <<<<-4, 4, -1>>>>, <<<<0, 0, 1>>>>, <<<<0, 0, 1>>, <<0, 1, 0>>>>}

\* The divisions searched: from 2 or from LateDivisions, up to FewDivisions
\* or ManyDivisions.
LateDivisions == 26

FewDivisions == 7

ManyDivisions == 45

MaxRadius == 1

\* The candidates of the strategies other than 'patent'.
OtherCandidates == [1..JoinDim -> 0..2]

NextFactor ==
    \/ \E commas \in FactorCommas : NewFromCommas("A", JoinBasis, commas)
    \/ \E minDivisions \in {2, LateDivisions},
          maxDivisions \in {FewDivisions, ManyDivisions},
          wartRadius \in 0..MaxRadius, strategy \in Strategies :
          ValFactorize("A", minDivisions, maxDivisions, wartRadius, strategy)
    \/ PatentVariant
    \/ \E variant \in OtherCandidates : OtherVariant(variant)
    \/ NotFound
    \/ Discard

SpecFactor == Init /\ [][NextFactor]_vars

(***************************************************************************)
(* commaFactorize                                                          *)
(***************************************************************************)
\* a % b of JavaScript on integers, b not 0: the sign of the dividend.
JsRem(a, b) == Sign(a) * (Abs(a) % Abs(b))

\* gcd(a, b) of the two-argument reducer, on signed integers.
RECURSIVE gcdSigned(_, _)
gcdSigned(a, b) ==
    IF a = 0 THEN b
    ELSE IF b = 0 THEN a
    ELSE LET a1 == JsRem(a, b)
         IN  IF a1 = 0 THEN b
             ELSE LET b1 == JsRem(b, a1)
                  IN  IF b1 = 0 THEN a1 ELSE gcdSigned(a1, b1)

\* hyperwedge.reduce(gcd) over the components from index i on.
RECURSIVE ReduceFrom(_, _, _, _)
ReduceFrom(X, index, i, acc) ==
    IF i > Len(index) THEN acc
    ELSE ReduceFrom(X, index, i + 1, gcdSigned(acc, X[index[i]]))

\* hyperwedge.rescale(1 / factor), stored in the Int32Array of the element.
Rescale(n, X, factor) ==
    [S \in Blades(n) |-> ScaleComponent(X[S], Sign(factor), Abs(factor))]

\* hyperwedge = hyperwedge.wedge(val) divided by hyperwedge.reduce(gcd)
Reduced(n, X) ==
    LET index == SortBlades(Blades(n))
        factor == ReduceFrom(X, index, 2, X[index[1]])
    IN  Rescale(n, X, factor)

\* X or its negation is among the elements xs.
Known(n, X, xs) ==
    \E i \in 1..Len(xs) :
        ValueEquals(n, X, xs[i]) \/ ValueEquals(n, Neg(n, X), xs[i])

\* vee(...combination)
RECURSIVE VeeAll(_, _)
VeeAll(n, xs) ==
    IF Len(xs) = 1 THEN xs[1]
    ELSE Vee(n, VeeAll(n, SubSeq(xs, 1, Len(xs) - 1)), xs[Len(xs)])

\* iterKCombinations(commaDuals, k): the sub-lists of k elements.
KCombinations(xs, k) ==
    {[i \in 1..k |-> xs[pick[i]]] :
        pick \in {f \in [1..k -> 1..Len(xs)] :
                     \A i \in 1..(k - 1) : f[i] < f[i + 1]}}

\* The combinations for which pushAndVee returns: their vee is the value or
\* its negation.
Recreating(n, value, commaDuals, corank) ==
    {combination \in KCombinations(commaDuals, corank) :
        \/ ValueEquals(n, VeeAll(n, combination), value)
        \/ ValueEquals(n, VeeAll(n, combination), Neg(n, value))}

\* result.map(cd => [...cd.vector()]), the dual left out.
CommasOfUndualed(n, combination) ==
    [i \in 1..Len(combination) |-> Vector(n, combination[i])]

\* result.map(cd => [...cd.dual().vector()])
CommasOf(n, combination) ==
    [i \in 1..Len(combination) |-> Vector(n, Dual(n, combination[i]))]

\* this.commaFactorize(maxDivisions) up to its loop; it returns at once when
\* the corank is at most 1.
CommaFactorize(s, maxDivisions) ==
    /\ build.pc = "idle"
    /\ temps[s].live
    /\ search.pc = "idle"
    /\ LET n == Dim(s)
           corank == n - getRank(n, Value(s))
       IN  search' =
             IF corank <= 1
             THEN [pc |-> "returned commas", this |-> s, corank |-> corank,
                   maxDivisions |-> maxDivisions,
                   result |-> CommasOf(n, <<Value(s)>>)]
             ELSE [pc |-> "commaFactorize", this |-> s, corank |-> corank,
                   maxDivisions |-> maxDivisions, divisions |-> 1, index |-> 1,
                   hyperwedges |-> <<[cr |-> corank, hyperwedge |-> Value(s)]>>,
                   commaDuals |-> << >>]
    /\ UNCHANGED <<temps, cells, build, hist, call, given, algebras>>

\* One iteration of the inner loop, over the hyperwedges (those pushed
\* during the loop included); past the last of them the next divisions.
CommaStep ==
    /\ search.pc = "commaFactorize"
    /\ search.divisions <= search.maxDivisions
    /\ LET s == search.this
           n == Dim(s)
           onwards == [search EXCEPT !.index = @ + 1]
       IN  IF search.index > Len(search.hyperwedges)
           THEN search' = [search EXCEPT !.divisions = @ + 1, !.index = 1]
           ELSE LET val == FromVector(n, PatentBase(n, search.divisions))
                    entry == search.hyperwedges[search.index]
                    wedged == Wedge(n, entry.hyperwedge, val)
                    cr == entry.cr - 1
                    hyperwedge == Reduced(n, wedged)
                    commaDuals == Append(search.commaDuals, hyperwedge)
                    found == Recreating(n, Value(s), commaDuals, search.corank)
                    existing == [i \in 1..Len(search.hyperwedges) |->
                                    search.hyperwedges[i].hyperwedge]
                IN  IF IsNil(n, wedged) THEN search' = onwards
                    ELSE IF cr <= 1
                    THEN IF Known(n, hyperwedge, search.commaDuals)
                         THEN search' = onwards
                         ELSE IF found = {}
                         THEN search' = [onwards EXCEPT !.commaDuals = commaDuals]
                         ELSE \E combination \in found :
                                search' = [pc |-> "returned commas", this |-> s,
                                           corank |-> search.corank,
                                           maxDivisions |-> search.maxDivisions,
                                           result |-> CommasOf(n, combination)]
                    ELSE IF Known(n, hyperwedge, existing)
                    THEN search' = onwards
                    ELSE search' = [onwards EXCEPT !.hyperwedges =
                                       Append(@, [cr |-> cr, hyperwedge |-> hyperwedge])]
    /\ UNCHANGED <<temps, cells, build, hist, call, given, algebras>>

\* throw new Error('Comma factorization not found within the search space')
CommasNotFound ==
    /\ search.pc = "commaFactorize"
    /\ search.divisions > search.maxDivisions
    /\ search' = [search EXCEPT !.pc = "Comma factorization not found within the search space"]
    /\ UNCHANGED <<temps, cells, build, hist, call, given, algebras>>

(***************************************************************************)
(* SpecComma: temperaments over 2.3.5 factorized into commas.              *)
(***************************************************************************)
\* The vals of the temperaments: none, one of few or of 12 divisions, two of
\* meantone, three of the whole group, and three with a doubled one.
CommaVals ==
    {<< >>, <<<<1, 2, 2>>>>, <<<<1, 1, 1>>>>, <<<<2, 0, 0>>>>, <<<<12, 19, 28>>>>,
     <<<<0, 0, 1>>>>, <<<<3, 5, 7>>>>, <<<<7, 11, 16>>>>, <<<<0, Contorted, 0>>>>,
     <<<<5, 8, 12>>, <<7, 11, 16>>>>,
     <<<<1, 0, 0>>, <<0, 1, 0>>, <<0, 0, 1>>>>,
     <<<<2, 0, 0>>, <<0, 1, 0>>, <<0, 0, 1>>>>}

NextComma ==
    \/ \E vals \in CommaVals : NewFromVals("A", JoinBasis, vals)
    \/ \E commas \in FactorCommas : NewFromCommas("A", JoinBasis, commas)
    \/ \E maxDivisions \in {1, 2, FewDivisions} : CommaFactorize("A", maxDivisions)
    \/ CommaStep
    \/ CommasNotFound
    \/ Discard

SpecComma == Init /\ [][NextComma]_vars

(***************************************************************************)
(* numPeriodsGenerators                                                    *)
(***************************************************************************)
\* div(a, b) == Math.floor(a / b), b not 0.
div(a, b) == IF b > 0 THEN a \div b ELSE (-a) \div (-b)

\* The while loop of extendedEuclid.
RECURSIVE EuclidLoop(_, _, _, _, _, _)
EuclidLoop(rOld, r, sOld, s, tOld, t) ==
    IF r = 0
    THEN [coefA |-> sOld, coefB |-> tOld, gcd |-> rOld,
          quotientA |-> t, quotientB |-> Abs(s)]
    ELSE LET quotient == div(rOld, r)
         IN  EuclidLoop(r, rOld - quotient * r, s, sOld - quotient * s,
                        t, tOld - quotient * t)

\* extendedEuclid with the starting coefficients exchanged.
extendedEuclidExchanged(a, b) == EuclidLoop(a, b, 0, 1, 1, 0)

\* extendedEuclid that never moves the second coefficient from 0.
extendedEuclidOneSided(a, b) == EuclidLoop(a, b, 1, 0, 0, 0)

\* extendedEuclid(a, b) of two integers (never NaN).
extendedEuclid(a, b) == EuclidLoop(a, b, 1, 0, 0, 1)

\* iteratedEuclid(params): the coefficients, and the running gcd a.
RECURSIVE iteratedEuclid(_)
iteratedEuclid(params) ==
    IF Len(params) <= 1 THEN [coefs |-> [j \in 1..Len(params) |-> 1],
                              a |-> IF params = << >> THEN 0 ELSE params[1]]
    ELSE LET front == iteratedEuclid(SubSeq(params, 1, Len(params) - 1))
             ee == extendedEuclid(front.a, params[Len(params)])
         IN  [coefs |-> Append([j \in 1..Len(front.coefs) |-> front.coefs[j] * ee.coefA],
                               ee.coefB),
              a |-> ee.gcd]

\* algebra.basisBlade(i).dotL(X): the left contraction with the basis vector
\* of the factor i + 1 (the indices of the source start at 0).
BasisDotL(n, i, X) ==
    [S \in Blades(n) |->
        IF (i + 1) \in S THEN 0
        ELSE LET below == Cardinality({j \in S : j < i + 1})
             IN  (IF below % 2 = 0 THEN 1 ELSE -1) * X[S \cup {i + 1}]]

\* generators.reduce((a, b) => a.wedge(b)).dotL(X), the generators being
\* basis vectors: the contractions one after the other, the last first.
RECURSIVE BladeDotL(_, _, _)
BladeDotL(n, generators, X) ==
    IF generators = << >> THEN X
    ELSE BladeDotL(n, SubSeq(generators, 1, Len(generators) - 1),
                   BasisDotL(n, generators[Len(generators)], X))

\* X.reduce(gcd)
ReduceAll(n, X) ==
    LET index == SortBlades(Blades(n))
    IN  ReduceFrom(X, index, 2, X[index[1]])

\* algebra.basisBlade(i) as the array of its vector part.
BasisMonzo(n, i) == [j \in 1..n |-> IF j = i + 1 THEN 1 ELSE 0]

\* The for loop of numPeriodsGenerators from the blade i on, and what
\* follows it. The scalar product blade.wedge(...).star(p) is the
\* contraction of p with the blade, up to the sign the library gives it.
RECURSIVE GeneratorLoop(_, _, _, _, _, _, _)
GeneratorLoop(n, p, numPeriods, i, remaining, generators, sign) ==
    IF i >= n
    THEN IF remaining # 1
         THEN [outcome |-> "Failed to find generators"]
         ELSE LET final == iteratedEuclid(Vector(n, BladeDotL(n, generators, p))).coefs
              IN  [outcome |-> "returned", numPeriods |-> numPeriods,
                   generators |-> <<final>> \o
                       [k \in 1..Len(generators) |-> BasisMonzo(n, generators[k])]]
    ELSE IF remaining = 1
    THEN LET measure == sign * BladeDotL(n, Append(generators, i), p)[{}]
         IN  IF measure = numPeriods
             THEN [outcome |-> "returned", numPeriods |-> numPeriods,
                   generators |-> [k \in 1..(Len(generators) + 1) |->
                       BasisMonzo(n, Append(generators, i)[k])]]
             ELSE GeneratorLoop(n, p, numPeriods, i + 1, remaining, generators, sign)
    ELSE IF Abs(ReduceAll(n, BasisDotL(n, i, p))) = numPeriods
    THEN GeneratorLoop(n, p, numPeriods, i + 1, remaining - 1,
                       Append(generators, i), sign)
    ELSE GeneratorLoop(n, p, numPeriods, i + 1, remaining, generators, sign)

\* value.numPeriodsGenerators() of n dimensions, n at least 1. A nil value
\* has no rank: `remaining` is then NaN and the call throws after the loop.
numPeriodsGenerators(n, value, sign) ==
    LET rank == getRank(n, value)
        equaveOrthoComplement == BasisDotL(n, 0, value)
        numPeriods == Abs(ReduceAll(n, equaveOrthoComplement))
    IN  IF IsNil(n, value) THEN [outcome |-> "Failed to find generators"]
        ELSE IF rank = 1
        THEN [outcome |-> "returned", numPeriods |-> numPeriods, generators |-> << >>]
        ELSE IF rank = 2
        THEN [outcome |-> "returned", numPeriods |-> numPeriods,
              generators |-> <<iteratedEuclid(Vector(n, equaveOrthoComplement)).coefs>>]
        ELSE GeneratorLoop(n, equaveOrthoComplement, numPeriods, 1, rank - 1,
                           << >>, sign)

\* temps[s].numPeriodsGenerators(), with the value it was called on and the
\* number of canonize() calls before it.
NumPeriodsGenerators(s) ==
    /\ build.pc = "idle"
    /\ temps[s].live
    /\ Dim(s) >= 1
    /\ search.pc = "idle"
    /\ \E sign \in {1, -1} :
         search' = [pc |-> "numPeriodsGenerators", this |-> s,
                    value |-> Value(s), canonized |-> hist[s].canonized,
                    result |-> numPeriodsGenerators(Dim(s), Value(s), sign)]
    /\ UNCHANGED <<temps, cells, build, hist, call, given, algebras>>

\* The caller is done with what the call returned or raised.
Forget ==
    /\ search.pc \in {"numPeriodsGenerators", "rankPrefix"}
    /\ search' = NoSearch
    /\ UNCHANGED <<temps, cells, build, hist, call, given, algebras>>

(***************************************************************************)
(* SpecPeriods: periods and generators of temperaments over 2.3.5.         *)
(***************************************************************************)
MaxPeriodInputs == 2

PeriodVectors == [1..JoinDim -> {-2, 0, 1, 3}]

\* At most two vals, or three vals of the whole group.
PeriodVals ==
    ListsUpTo(PeriodVectors, MaxPeriodInputs) \cup
    {<<<<1, 0, 0>>, <<0, 1, 0>>, <<0, 0, 1>>>>, <<<<0, 1, 0>>, <<1, 0, 0>>, <<0, 0, 1>>>>}

NextPeriods ==
    \/ \E vals \in PeriodVals : NewFromVals("A", JoinBasis, vals)
    \/ Canonize("A")
    \/ NumPeriodsGenerators("A")
    \/ Forget
    \/ Discard

SpecPeriods == Init /\ [][NextPeriods]_vars

(***************************************************************************)
(* rankPrefix                                                              *)
(***************************************************************************)
\* The rows of Pascal's triangle, as binomial() builds them.
RECURSIVE BINOMIALS(_)
BINOMIALS(n) ==
    IF n = 0 THEN <<1>>
    ELSE LET lastRow == BINOMIALS(n - 1)
         IN  <<1>> \o [i \in 1..(n - 1) |-> lastRow[i] + lastRow[i + 1]] \o <<1>>

\* binomial(n, k): BINOMIALS[n][k], k a list of no number (NaN) or of one.
\* There is no row n below 0 (a TypeError) and no entry k outside the row.
binomial(n, k) ==
    IF n < 0 THEN [type |-> "TypeError"]
    ELSE IF k # << >> /\ k[1] \in 0..n
    THEN [type |-> "number", number |-> BINOMIALS(n)[k[1] + 1]]
    ELSE [type |-> "undefined"]

\* value.vector(grade): the components of one grade, in the order of the
\* library; the grade is 1 when the argument is undefined.
GradeVector(n, X, grade) ==
    LET g == IF grade = << >> THEN 1 ELSE grade[1]
        index == SortBlades(GradeBlades(n, g))
    IN  [i \in 1..Len(index) |-> X[index[i]]]

\* array.slice(0, end): whole when end is undefined.
Slice(array, end) ==
    IF end.type = "undefined" THEN array
    ELSE SubSeq(array, 1, Min({end.number, Len(array)}))

\* this.getRank() as a list: empty when the value is nil (undefined).
OwnRank(n, value) == IF IsNil(n, value) THEN << >> ELSE <<getRank(n, value)>>

\* value.rankPrefix(rank) of n dimensions; rank is the list of the
\* arguments, empty when the rank is omitted.
rankPrefix(n, value, rank) ==
    LET rank_ == IF rank = << >> THEN OwnRank(n, value) ELSE rank
        end == binomial(n - 1, [i \in 1..Len(rank_) |-> rank_[i] - 1])
    IN  IF end.type = "TypeError" THEN [outcome |-> "TypeError"]
        ELSE [outcome |-> "returned",
              prefix |-> Slice(GradeVector(n, value, rank_), end)]

\* temps[s].rankPrefix(rank)
RankPrefix(s, rank) ==
    /\ build.pc = "idle"
    /\ temps[s].live
    /\ search.pc = "idle"
    /\ search' = [pc |-> "rankPrefix", this |-> s, rank |-> rank,
                  value |-> Value(s), canonized |-> hist[s].canonized,
                  result |-> rankPrefix(Dim(s), Value(s), rank)]
    /\ UNCHANGED <<temps, cells, build, hist, call, given, algebras>>

(***************************************************************************)
(* SpecPrefix: rank prefixes of temperaments over the prime limits.        *)
(***************************************************************************)
MaxPrefixInputs == 2

\* rankPrefix(), rankPrefix(0), ..., rankPrefix(n + 1)
RankArguments(n) == {<< >>} \cup {<<rank>> : rank \in 0..(n + 1)}

NextPrefix ==
    \/ \E b \in PrimeLimits :
         \E vals \in ListsUpTo(Vectors(Len(b)), MaxPrefixInputs) :
            NewFromVals("A", b, vals)
    \/ Canonize("A")
    \/ \E rank \in RankArguments(Dim("A")) : RankPrefix("A", rank)
    \/ Forget
    \/ Discard

SpecPrefix == Init /\ [][NextPrefix]_vars

(***************************************************************************)
(* fromPrefix                                                              *)
(***************************************************************************)
\* Clifford.fromVector(array, grade): the array as the components of one
\* grade, in the order of the library.
FromGradeVector(n, array, grade) ==
    LET index == SortBlades(GradeBlades(n, grade))
    IN  [S \in Blades(n) |->
            IF Cardinality(S) = grade
            THEN LET i == CHOOSE j \in 1..Len(index) : index[j] = S
                 IN  IF i <= Len(array) THEN array[i] ELSE 0
            ELSE 0]

\* The prefix followed by the zeros.
paddedWedgieAtFront(n, rank, wedgiePrefix) ==
    LET length == binomial(n, <<rank - 1>>).number
    IN  [i \in 1..length |-> IF i <= Len(wedgiePrefix) THEN wedgiePrefix[i] ELSE 0]

\* paddedWedgie: binomial(dims, rank - 1) zeros, the last of them replaced
\* by the prefix (splice). The rank is from 1 to dims and the prefix is no
\* longer than the array.
paddedWedgie(n, rank, wedgiePrefix) ==
    LET length == binomial(n, <<rank - 1>>).number
        start == length - Len(wedgiePrefix)
    IN  [i \in 1..length |-> IF i > start THEN wedgiePrefix[i - start] ELSE 0]

\* The value fromPrefix gives the temperament, over a prime limit: the
\* padded prefix wedged with jip1 = jip.map(j => j / jip[0]), each component
\* rounded (Math.round) and stored as an integer.
fromPrefix(n, rank, wedgiePrefix) ==
    LET jip1 == FromVector(n, [i \in 1..n |-> normalizedMapping[i]])
        padded == FromGradeVector(n, paddedWedgie(n, rank, wedgiePrefix), rank - 1)
        value == Wedge(n, padded, jip1)
    IN  [S \in Blades(n) |-> Round(value[S], LogScale)]

\* temps[s] = Temperament.fromPrefix(rank, wedgiePrefix, basis)
FromPrefix(s, rank, wedgiePrefix, basis) ==
    /\ build.pc = "idle"
    /\ ~temps[s].live
    /\ rank \in 1..Len(basis)
    /\ Len(wedgiePrefix) <= binomial(Len(basis), <<rank - 1>>).number
    /\ temps' = [temps EXCEPT ![s] = [live |-> TRUE, basis |-> basis, ref |-> s]]
    /\ cells' = [cells EXCEPT ![s] = fromPrefix(Len(basis), rank, wedgiePrefix)]
    /\ hist' = [hist EXCEPT ![s] = [made |-> "fromPrefix", supplied |-> Len(wedgiePrefix),
                                    accepted |-> rank, canonized |-> 0,
                                    pre |-> fromPrefix(Len(basis), rank, wedgiePrefix)]]
    /\ UNCHANGED <<build, call, given, algebras, search>>

(***************************************************************************)
(* SpecRecover: temperaments over 2.3.5 and 2.3.5.7, their prefixes and    *)
(* the temperaments recovered from prefixes.                               *)
(***************************************************************************)
RecoverDim == 4

Limit5 == Subgroup([i \in 1..3 |-> <<PRIMES[i], 1>>])

Limit7 == Subgroup([i \in 1..RecoverDim |-> <<PRIMES[i], 1>>])

\* 81/80
Syntonic == <<-4, 4, -1>>

\* 128/125
Diesis == <<7, 0, -3>>

\* 225/224 and 1029/1024
Marvel == <<-5, 2, 2, -1>>

Gamelisma == <<-10, 1, 0, 3>>

Meantone == [basis |-> Limit5, commas |-> <<Syntonic>>]

Augmented == [basis |-> Limit5, commas |-> <<Diesis>>]

Miracle == [basis |-> Limit7, commas |-> <<Marvel, Gamelisma>>]

\* The named temperaments, and the 5-limit ones of one small comma or none.
RecoverInputs ==
    {Meantone, Augmented, Miracle} \cup
    {[basis |-> Limit5, commas |-> commas] : commas \in ListsUpTo(Vectors(3), 1)}

\* Prefixes written out by the caller.
WrittenPrefixes == {<<1, 4>>, <<3, 0>>, <<6, -7, -2>>, <<0, 1>>}

\* The prefixes handed to fromPrefix: the written ones and the one the last
\* rankPrefix call returned.
Prefixes ==
    WrittenPrefixes \cup
    (IF search.pc = "rankPrefix" /\ search.result.outcome = "returned"
     THEN {search.result.prefix} ELSE {})

NextRecover ==
    \/ \E t \in RecoverInputs : NewFromCommas("A", t.basis, t.commas)
    \/ \E s \in {"A", "B"} : Canonize(s)
    \/ \E rank \in RankArguments(Dim("A")) : RankPrefix("A", rank)
    \/ \E rank \in 1..RecoverDim, wedgiePrefix \in Prefixes :
          temps["A"].live /\ FromPrefix("B", rank, wedgiePrefix, temps["A"].basis)
    \/ Forget
    \/ Discard

SpecRecover == Init /\ [][NextRecover]_vars

(***************************************************************************)
(* The Subgroup constructor with its checks                                *)
(***************************************************************************)
\* The index of a number in PRIMES, 0 when it is not there (indexOf: -1).
IndexOf(limit) ==
    IF \E i \in 1..Len(PRIMES) : PRIMES[i] = limit
    THEN CHOOSE i \in 1..Len(PRIMES) : PRIMES[i] = limit
    ELSE 0

\* The forEach over this.basis from the factor i on: the first factor that
\* equals 1 or compares below 0 raises.
RECURSIVE CheckFactors(_, _)
CheckFactors(basis, i) ==
    IF i > Len(basis) THEN "returned"
    ELSE IF FractionEquals(basis[i], <<1, 1>>)
    THEN "The number 1 is not a valid basis factor"
    ELSE IF basis[i][1] < 0 THEN "Basis factors must be positive"
    ELSE CheckFactors(basis, i + 1)

\* new Subgroup(basis) of a SubgroupValue: a number (or NaN), a
\* period-separated string or an array of factors; the factors of the last
\* two are the fractions <<numerator, denominator>> as written.
NewSubgroup(basis) ==
    IF basis.type = "NaN" THEN [outcome |-> "Invalid limit", basis |-> << >>]
    ELSE IF basis.type = "number"
    THEN IF IndexOf(basis.limit) = 0
         THEN [outcome |-> "Limit must be a prime", basis |-> << >>]
         ELSE LET primes == [i \in 1..IndexOf(basis.limit) |-> NewFraction(<<PRIMES[i], 1>>)]
              IN  [outcome |-> CheckFactors(primes, 1), basis |-> primes]
    ELSE LET fractions == Subgroup(basis.factors)
         IN  [outcome |-> CheckFactors(fractions, 1), basis |-> fractions]

\* subgroup = new Subgroup(basis), or the error it raises.
ConstructSubgroup(basis) ==
    /\ call.op = "none"
    /\ build.pc = "idle"
    /\ call' = [op |-> "new Subgroup", given |-> basis,
                outcome |-> NewSubgroup(basis).outcome,
                basis |-> NewSubgroup(basis).basis]
    /\ UNCHANGED <<temps, cells, build, hist, given, algebras, search>>

\* The caller is done with the subgroup or the error.
ForgetCall ==
    /\ call.op # "none"
    /\ call' = NoCall
    /\ UNCHANGED <<temps, cells, build, hist, given, algebras, search>>

(***************************************************************************)
(* SpecSubgroup: subgroups of limits, strings and arrays.                  *)
(***************************************************************************)
MaxBasis == 2

MaxNumerator == 4

\* The factors written: fractions from -1 to MaxNumerator, whole or halved.
WrittenFactors == (-1..MaxNumerator) \X (1..2)

SubgroupValues ==
    {[type |-> "NaN", limit |-> 0, factors |-> << >>]} \cup
    {[type |-> "number", limit |-> limit, factors |-> << >>] : limit \in -5..7} \cup
    {[type |-> type, limit |-> 0, factors |-> factors] :
        type \in {"string", "array"},
        factors \in UNION {[1..n -> WrittenFactors] : n \in 0..MaxBasis}}

NextSubgroup ==
    \/ \E basis \in SubgroupValues : ConstructSubgroup(basis)
    \/ ForgetCall

SpecSubgroup == Init /\ [][NextSubgroup]_vars

(***************************************************************************)
(* resolveMonzo                                                            *)
(***************************************************************************)
\* The exponent of the prime p in the positive integer m.
RECURSIVE Exponent(_, _)
Exponent(p, m) == IF m % p # 0 THEN 0 ELSE 1 + Exponent(p, m \div p)

\* The exponents of all of PRIMES in the fraction f = <<n, d>>.
PrimeExponents(f) ==
    [i \in 1..Len(PRIMES) |-> Exponent(PRIMES[i], f[1]) - Exponent(PRIMES[i], f[2])]

\* toMonzo(fraction): the exponents up to the last prime of the fraction.
toMonzo(f) ==
    LET all == PrimeExponents(f)
        used == {i \in 1..Len(all) : all[i] # 0}
    IN  SubSeq(all, 1, IF used = {} THEN 0 ELSE CHOOSE i \in used : \A j \in used : j <= i)

\* array with zeros pushed until it has `length` components.
Padded(array, length) ==
    [i \in 1..(IF Len(array) > length THEN Len(array) ELSE length) |->
        IF i <= Len(array) THEN array[i] ELSE 0]

\* this.basisMonzos(): the monzos of the factors, all of one length.
basisMonzos(basis) ==
    LET monzos == [i \in 1..Len(basis) |-> toMonzo(basis[i])]
        lengths == {Len(monzos[i]) : i \in 1..Len(basis)} \cup {0}
        dimensions == CHOOSE d \in lengths : \A e \in lengths : e <= d
    IN  [i \in 1..Len(basis) |-> Padded(monzos[i], dimensions)]

\* this.simpleIndices(basisMonzos) from the monzo i on: the prime index of
\* each factor (counted from 1), or none at all when a factor has two primes.
RECURSIVE simpleIndices(_, _)
simpleIndices(monzos, i) ==
    IF i > Len(monzos) THEN << >>
    ELSE LET nonzero == {j \in 1..Len(monzos[i]) : monzos[i][j] # 0}
             rest == simpleIndices(monzos, i + 1)
         IN  IF Cardinality(nonzero) > 1 THEN << >>
             ELSE IF i < Len(monzos) /\ rest = << >> THEN << >>
             ELSE [k \in 1..Cardinality(nonzero) |-> CHOOSE j \in nonzero : TRUE] \o rest

\* toMonzo_ on a prime-power basis: the forEach over simpleIndices from the
\* index i on, each component the floor of what is left of the exponent.
RECURSIVE SimpleComponents(_, _, _, _)
SimpleComponents(primeMonzo, monzos, indices, i) ==
    IF i > Len(indices) THEN << >>
    ELSE LET index == indices[i]
         IN  IF index > Len(primeMonzo)
             THEN <<0>> \o SimpleComponents(primeMonzo, monzos, indices, i + 1)
             ELSE LET component == div(primeMonzo[index], monzos[i][index])
                      left == [primeMonzo EXCEPT
                                  ![index] = @ - component * monzos[i][index]]
                  IN  <<component>> \o SimpleComponents(left, monzos, indices, i + 1)

\* this.toMonzo_(primeMonzo, basisMonzos) when simpleIndices is not empty.
toMonzo_(primeMonzo, monzos) ==
    SimpleComponents(primeMonzo, monzos, simpleIndices(monzos, 1), 1)

\* fraction.div(this.basis[index].pow(component)) over the components: the
\* residual by the exponents of its primes, all 0 for the fraction 1.
Residual(f, basis, monzo) ==
    [p \in 1..Len(PRIMES) |->
        PrimeExponents(f)[p] -
        SumF([k \in 1..Len(monzo) |-> monzo[k] * PrimeExponents(basis[k])[p]],
             1..Len(monzo))]

\* this.toMonzoAndResidual(fraction); basisMonzos[0] of an empty basis is
\* undefined and its length a TypeError.
toMonzoAndResidual(basis, f) ==
    IF basis = << >> THEN [outcome |-> "TypeError", monzo |-> << >>]
    ELSE LET monzos == basisMonzos(basis)
             dimensions == Len(monzos[1])
             primeMonzo == SubSeq(PrimeExponents(f), 1, dimensions)
             monzo == toMonzo_(primeMonzo, monzos)
         IN  [outcome |-> "returned", monzo |-> monzo,
              residual |-> Residual(f, basis, monzo)]

\* this.resolveMonzo(interval, primeMapping) of a fraction or of an array
\* of numbers.
resolveMonzo(basis, interval) ==
    IF interval.type = "monzo"
    THEN IF interval.primeMapping
         THEN [outcome |-> "returned", monzo |-> toMonzo_(interval.monzo, basisMonzos(basis))]
         ELSE [outcome |-> "returned", monzo |-> Padded(interval.monzo, Len(basis))]
    ELSE LET pair == toMonzoAndResidual(basis, interval.fraction)
         IN  IF pair.outcome = "TypeError" THEN pair
             ELSE IF \E p \in 1..Len(PRIMES) : pair.residual[p] # 0
             THEN [outcome |-> "Interval outside subgroup", monzo |-> << >>]
             ELSE [outcome |-> "returned", monzo |-> pair.monzo]

\* subgroup.resolveMonzo(interval, primeMapping) on the subgroup just
\* constructed. The factors are powers of one prime each; other bases go
\* through a linear solver that is not modelled.
ResolveMonzo(interval) ==
    /\ build.pc = "idle"
    /\ call.op = "new Subgroup"
    /\ call.outcome = "returned"
    /\ simpleIndices(basisMonzos(call.basis), 1) # << >> \/
          (call.basis = << >> /\ interval.type = "fraction")
    /\ call' = [op |-> "resolveMonzo", given |-> interval, basis |-> call.basis,
                outcome |-> resolveMonzo(call.basis, interval).outcome,
                monzo |-> resolveMonzo(call.basis, interval).monzo]
    /\ UNCHANGED <<temps, cells, build, hist, given, algebras, search>>

(***************************************************************************)
(* SpecResolve: intervals resolved in subgroups of prime powers.           *)
(***************************************************************************)
MaxInterval == 9

\* Powers of 2, 3 and 5, and 1/2.
PowerFactors == {<<2, 1>>, <<3, 1>>, <<4, 1>>, <<5, 1>>, <<8, 1>>, <<9, 1>>, <<1, 2>>}

PowerBases ==
    {[type |-> "array", limit |-> 0, factors |-> factors] :
        factors \in UNION {[1..n -> PowerFactors] : n \in 0..MaxBasis}}

\* Fractions in lowest terms, and short monzos.
Intervals ==
    {[type |-> "fraction", fraction |-> f, monzo |-> << >>, primeMapping |-> FALSE] :
        f \in {g \in (1..MaxInterval) \X (1..MaxInterval) : gcd(g[1], g[2]) = 1}} \cup
    {[type |-> "monzo", fraction |-> <<1, 1>>, monzo |-> m, primeMapping |-> b] :
        m \in {<<1>>, <<-1, 2>>, <<0, 0, 1>>}, b \in BOOLEAN}

NextResolve ==
    \/ \E basis \in PowerBases : ConstructSubgroup(basis)
    \/ \E interval \in Intervals : ResolveMonzo(interval)
    \/ ForgetCall

SpecResolve == Init /\ [][NextResolve]_vars

(***************************************************************************)
(* dot                                                                     *)
(***************************************************************************)
\* The loop running while i < a.length: a component b does not have is
\* undefined, and the sum with it NaN.
dotOverFirst(a, b) ==
    IF Len(a) > Len(b) THEN [nan |-> TRUE, number |-> 0]
    ELSE [nan |-> FALSE,
          number |-> SumF([i \in 1..Len(a) |-> a[i] * b[i]], 1..Len(a))]

\* dot(a, b): the loop runs while i < Math.min(a.length, b.length).
dot(a, b) ==
    LET shared == 1..(IF Len(a) < Len(b) THEN Len(a) ELSE Len(b))
    IN  [nan |-> FALSE, number |-> SumF([i \in shared |-> a[i] * b[i]], shared)]

\* result = dot(a, b)
DotCall(a, b) ==
    /\ build.pc = "idle"
    /\ call.op = "none"
    /\ call' = [op |-> "dot", a |-> a, b |-> b, outcome |-> "returned",
                result |-> dot(a, b)]
    /\ UNCHANGED <<temps, cells, build, hist, given, algebras, search>>

(***************************************************************************)
(* SpecDot: dot products of monzos and mappings of up to MaxDim numbers.   *)
(***************************************************************************)
Monzos == UNION {[1..n -> -MaxC..MaxC] : n \in 0..MaxDim}

NextDot ==
    \/ \E a \in Monzos, b \in Monzos : DotCall(a, b)
    \/ ForgetCall

SpecDot == Init /\ [][NextDot]_vars

(***************************************************************************)
(* The algebra cache                                                       *)
(***************************************************************************)
\* getAlgebra with the cache.set left out.
getAlgebraNoStore(caches, made, dimensions, algebraType) ==
    LET cache == caches[algebraType]
    IN  IF cache[dimensions] # 0
        THEN [caches |-> caches, algebra |-> cache[dimensions], made |-> made]
        ELSE [caches |-> caches, algebra |-> made + 1, made |-> made + 1]

\* getAlgebra(dimensions, algebraType): the algebra of the cache of the type
\* under the key `dimensions`, or a new one (the next number) stored there.
getAlgebra(caches, made, dimensions, algebraType) ==
    LET cache == caches[algebraType]
    IN  IF cache[dimensions] # 0
        THEN [caches |-> caches, algebra |-> cache[dimensions], made |-> made]
        ELSE [caches |-> [caches EXCEPT ![algebraType][dimensions] = made + 1],
              algebra |-> made + 1, made |-> made + 1]

\* Largest number of calls the log holds.
MaxCalls == 4

\* algebra = getAlgebra(dimensions, algebraType)
GetAlgebra(dimensions, algebraType) ==
    /\ Len(algebras.log) < MaxCalls
    /\ LET got == getAlgebra(algebras.caches, algebras.made, dimensions, algebraType)
       IN  algebras' = [caches |-> got.caches, made |-> got.made,
                        log |-> Append(algebras.log,
                                       [op |-> "getAlgebra", dimensions |-> dimensions,
                                        algebraType |-> algebraType,
                                        algebra |-> got.algebra])]
    /\ UNCHANGED <<temps, cells, build, hist, call, given, search>>

\* clearCache(): every cache cleared.
ClearCache ==
    /\ Len(algebras.log) < MaxCalls
    /\ algebras' = [caches |-> [t \in AlgebraTypes |-> [d \in 0..MaxAlgebraDim |-> 0]],
                    made |-> algebras.made,
                    log |-> Append(algebras.log,
                                   [op |-> "clearCache", dimensions |-> 0,
                                    algebraType |-> "int32", algebra |-> 0])]
    /\ UNCHANGED <<temps, cells, build, hist, call, given, search>>

(***************************************************************************)
(* SpecCache: sequences of getAlgebra and clearCache calls.                *)
(***************************************************************************)
NextCache ==
    \/ \E dimensions \in 0..MaxAlgebraDim, algebraType \in AlgebraTypes :
          GetAlgebra(dimensions, algebraType)
    \/ ClearCache

SpecCache == Init /\ [][NextCache]_vars

(***************************************************************************)
(* generalizedPatentVals                                                   *)
(***************************************************************************)
\* LOG_PRIMES: the natural logarithms of 2, 3, 5, 7 in ten-thousandths, the
\* just intonation point of the prime limits.
LOG_PRIMES == <<6931, 10986, 16094, 19459>>

\* delta = 0.17, the default leap, in hundredths. LOG_PRIMES[i] * delta is in
\* millionths, the unit of normalizedMapping.
delta == 17

\* Sizes are held as whole numbers of delta / 2^maxBisections past
\* initialDivisions / jip[0]: a leap is 2^maxBisections units, and numBisect,
\* never above maxBisections, halves a gap of one leap at most that often.
\* jip.map(j => Math.round(j * size)) at the size held as `size`.
ValAt(n, initialDivisions, maxBisections, size) ==
    [i \in 1..n |->
       Round(initialDivisions * normalizedMapping[i] * Pow2(maxBisections)
                + LOG_PRIMES[i] * delta * size,
             LogScale * Pow2(maxBisections))]

\* distance(a, b)
distance(a, b) == SumF([i \in 1..Len(a) |-> Abs(a[i] - b[i])], 1..Len(a))

\* lastSize <= finalSize, finalSize = finalDivisions / jip[0].
WithinFinal(initialDivisions, finalDivisions, maxBisections, lastSize) ==
    lastSize * delta * LOG_PRIMES[1]
        <= (finalDivisions - initialDivisions) * LogScale * Pow2(maxBisections)

\* generalizedPatentVals(jip, initialDivisions, finalDivisions, delta,
\* maxBisections) up to its first yield, with the first `next` the generator
\* computes when it is resumed. `previous` is the val yielded before `last`.
GeneralizedPatentVals(n, initialDivisions, finalDivisions, maxBisections) ==
    /\ search.pc = "idle"
    /\ search' = [pc |-> "generalizedPatentVals", n |-> n,
                  initialDivisions |-> initialDivisions,
                  finalDivisions |-> finalDivisions,
                  maxBisections |-> maxBisections,
                  lastSize |-> 0,
                  last |-> ValAt(n, initialDivisions, maxBisections, 0),
                  nextSize |-> Pow2(maxBisections),
                  next |-> ValAt(n, initialDivisions, maxBisections,
                                 Pow2(maxBisections)),
                  numBisect |-> 0,
                  previous |-> << >>, yields |-> 1, yielded |-> TRUE]
    /\ UNCHANGED <<temps, cells, build, hist, call, given, algebras>>

\* while (lastSize <= finalSize): the generator goes round again or returns.
Looping(s) ==
    IF WithinFinal(s.initialDivisions, s.finalDivisions, s.maxBisections,
                   s.lastSize)
    THEN s
    ELSE [s EXCEPT !.pc = "done"]

\* d === 0: the walk leaps on by delta.
Leap ==
    /\ search.pc = "generalizedPatentVals"
    /\ distance(search.last, search.next) = 0
    /\ LET nextSize == search.nextSize + Pow2(search.maxBisections)
       IN  search' = Looping([search EXCEPT
             !.lastSize = search.nextSize,
             !.nextSize = nextSize,
             !.next = ValAt(search.n, search.initialDivisions,
                            search.maxBisections, nextSize),
             !.yielded = FALSE])
    /\ UNCHANGED <<temps, cells, build, hist, call, given, algebras>>

\* d === 1 || numBisect >= maxBisections: `next` is yielded.
YieldNext ==
    /\ search.pc = "generalizedPatentVals"
    /\ LET d == distance(search.last, search.next)
       IN  d # 0 /\ (d = 1 \/ search.numBisect >= search.maxBisections)
    /\ search' = Looping([search EXCEPT
             !.lastSize = search.nextSize,
             !.last = search.next,
             !.previous = <<search.last>>,
             !.yields = @ + 1,
             !.yielded = TRUE])
    /\ UNCHANGED <<temps, cells, build, hist, call, given, algebras>>

\* Otherwise the gap to lastSize is halved. numBisect counts the bisections
\* of the whole walk: nothing sets it back.
Bisect ==
    /\ search.pc = "generalizedPatentVals"
    /\ distance(search.last, search.next) > 1
    /\ search.numBisect < search.maxBisections
    /\ LET nextSize == search.nextSize
                         - (search.nextSize - search.lastSize) \div 2
       IN  search' = Looping([search EXCEPT
             !.nextSize = nextSize,
             !.next = ValAt(search.n, search.initialDivisions,
                            search.maxBisections, nextSize),
             !.numBisect = @ + 1,
             !.yielded = FALSE])
    /\ UNCHANGED <<temps, cells, build, hist, call, given, algebras>>

\* The caller is done with the exhausted generator.
Exhausted ==
    /\ search.pc = "done"
    /\ search' = NoSearch
    /\ UNCHANGED <<temps, cells, build, hist, call, given, algebras>>

(***************************************************************************)
(* SpecWalk: walks over the generalized patent vals of the 3-, 5- and      *)
(* 7-limit.                                                                *)
(***************************************************************************)
\* The walks start at 1 .. MaxInitial divisions and go on for up to MaxSpan
\* divisions, with up to MaxBisections bisections.
MaxInitial == 4

MaxSpan == 2

MinBisections == 3

MaxBisections == 4

NextWalk ==
    \/ \E n \in 2..4, initialDivisions \in 1..MaxInitial, span \in 0..MaxSpan,
          maxBisections \in MinBisections..MaxBisections :
          GeneralizedPatentVals(n, initialDivisions, initialDivisions + span,
                                maxBisections)
    \/ Leap
    \/ YieldNext
    \/ Bisect
    \/ Exhausted

SpecWalk == Init /\ [][NextWalk]_vars


(***************************************************************************)
(* getMapping                                                              *)
(***************************************************************************)
\* Subgroup.jip('nats') of 2.3.5 in twelfths of Math.LN2: log 2, log 3 and
\* log 5 to the nearest twelfth.
JipTwelfths == <<12, 19, 28>>

\* jip.map(j => 1 / j), the default weights, times 1596 = 12 * 133 = 19 * 84
\* = 28 * 57: the mapping does not change when every weight is multiplied
\* by the same number.
TenneyWeights == <<133, 84, 57>>

\* A double that is a ratio of integers in lowest terms, NaN or an Infinity.
Number(p, q) ==
    LET g == gcd(Abs(p), Abs(q))
    IN  [type |-> "number", value |-> <<Sign(q) * (p \div g), Abs(q) \div g>>]

NaN == [type |-> "NaN", value |-> <<0, 1>>]

Infinity(sign) == [type |-> "Infinity", value |-> <<sign, 1>>]

\* The product of two ratios, the common factors taken out before the
\* multiplications to keep the integers small.
Product(x, y) ==
    LET g == gcd(Abs(x[1]), Abs(y[2]))
        h == gcd(Abs(y[1]), Abs(x[2]))
    IN  Number((x[1] \div g) * (y[1] \div h), (x[2] \div h) * (y[2] \div g))

\* x / y of JavaScript, the zeros being positive.
Divide(x, y) ==
    IF x.type = "NaN" \/ y.type = "NaN" THEN NaN
    ELSE IF x.type = "Infinity"
         THEN IF y.type = "Infinity" THEN NaN
              ELSE Infinity(x.value[1] * (IF y.value[1] < 0 THEN -1 ELSE 1))
    ELSE IF y.type = "Infinity" THEN Number(0, 1)
    ELSE IF y.value[1] = 0
         THEN IF x.value[1] = 0 THEN NaN ELSE Infinity(Sign(x.value[1]))
    ELSE Product(x.value, <<y.value[2], y.value[1]>>)

\* x * y of JavaScript.
Times(x, y) ==
    IF x.type = "NaN" \/ y.type = "NaN" THEN NaN
    ELSE IF x.type = "Infinity" \/ y.type = "Infinity"
         THEN IF x.value[1] = 0 \/ y.value[1] = 0 THEN NaN
              ELSE Infinity(Sign(x.value[1]) * Sign(y.value[1]))
    ELSE Product(x.value, y.value)

\* The product of the weights of the indices of a blade.
RECURSIVE WeightOf(_, _)
WeightOf(S, weights) ==
    IF S = {} THEN 1
    ELSE LET i == CHOOSE j \in S : TRUE
         IN  weights[i] * WeightOf(S \ {i}, weights)

\* element.applyWeights(weights)
applyWeights(n, X, weights) == [S \in Blades(n) |-> X[S] * WeightOf(S, weights)]

\* a.dotL(b): the left contraction.
dotL(n, X, Y) ==
    [U \in Blades(n) |->
        SumF([S \in SUBSET ((1..n) \ U) |->
                 IF X[S] = 0 \/ Y[S \cup U] = 0 THEN 0
                 ELSE Sgn(S, S \cup U) * X[S] * Y[S \cup U]],
             SUBSET ((1..n) \ U))]

\* The reverse of an element: the numerator of element.inverse() of a blade.
Reverse(n, X) ==
    [S \in Blades(n) |->
        IF ((Cardinality(S) * (Cardinality(S) - 1)) \div 2) % 2 = 0
        THEN X[S] ELSE -X[S]]

\* The squared norm of a blade: the denominator of element.inverse().
NormSquared(n, X) == SumF([S \in Blades(n) |-> X[S] * X[S]], Blades(n))

\* this.calculateTenneyEuclid(jip, weights) of a value that is not nil. The
\* weighted just intonation point and the weighted value are divided by the
\* greatest common divisor of their components, which the projection takes
\* back (it is linear in the first and unchanged by a scale of the second).
calculateTenneyEuclid(n, value, jip, weights) ==
    LET weighted == [i \in 1..n |-> jip[i] * weights[i]]
        scale == GcdF(weighted, 1..n)
        jip_ == FromVector(n, [i \in 1..n |-> weighted[i] \div scale])
        applied == applyWeights(n, value, weights)
        common == GcdF(applied, Blades(n))
        weightedValue == [S \in Blades(n) |-> applied[S] \div common]
        projected == dotL(n, dotL(n, jip_, Reverse(n, weightedValue)),
                          weightedValue)
    IN  [i \in 1..n |->
           Number(scale * projected[{i}],
                  NormSquared(n, weightedValue) * weights[i])]

\* Math.log(this.subgroup.basis[0].valueOf()) over 2.3.5.
LogOfFirst == Number(JipTwelfths[1], 1)

\* natsToSemitones and natsToCents of a number of twelfths of Math.LN2.
natsToSemitones(nats) == nats

natsToCents(nats) == Times(nats, Number(100, 1))

\* this.getMapping(options) without constraints and primeMapping, the units
\* being 'nats', 'semitones' or 'cents'. options.weights is a list of none
\* (undefined) or one array of weights.
getMapping(n, value, options) ==
    LET jip == JipTwelfths
        weights == IF options.weights = << >> THEN TenneyWeights
                   ELSE options.weights[1]
        tenneyEuclid == calculateTenneyEuclid(n, value, jip, weights)
        purifier == Divide(LogOfFirst, tenneyEuclid[1])
        mapping == IF ~options.temperEquaves
                   THEN [i \in 1..n |-> Times(tenneyEuclid[i], purifier)]
                   ELSE tenneyEuclid
    IN  IF options.units = "nats" THEN mapping
        ELSE IF options.units = "semitones"
             THEN [i \in 1..n |-> natsToSemitones(mapping[i])]
        ELSE [i \in 1..n |-> natsToCents(mapping[i])]

\* temps[s].getMapping(options), with the value it was called on.
GetMapping(s, options) ==
    /\ build.pc = "idle"
    /\ temps[s].live
    /\ call.op = "none"
    /\ call' = [op |-> "getMapping", this |-> s, value |-> Value(s),
                options |-> options, outcome |-> "returned",
                result |-> getMapping(Dim(s), Value(s), options)]
    /\ UNCHANGED <<temps, cells, build, hist, given, algebras, search>>

(***************************************************************************)
(* SpecMapping: the tunings of temperaments over 2.3.5.                    *)
(***************************************************************************)
MaxMappingInputs == 2

\* Vals and commas of 2.3.5.
MappingVectors == [1..JoinDim -> {-1, 0, 1, 2}]

\* The Tenney weights by default, or equal weights.
TuningOptions ==
    [temperEquaves : BOOLEAN, units : {"nats", "semitones", "cents"},
     weights : {<< >>, <<<<1, 1, 1>>>>}]

NextMapping ==
    \/ \E vals \in ListsUpTo(MappingVectors, MaxMappingInputs) :
          NewFromVals("A", JoinBasis, vals)
    \/ \E commas \in ListsUpTo(MappingVectors, 1) :
          NewFromCommas("A", JoinBasis, commas)
    \/ \E options \in TuningOptions : GetMapping("A", options)
    \/ ForgetCall
    \/ Discard

SpecMapping == Init /\ [][NextMapping]_vars


(***************************************************************************)
(* extendedEuclid and iteratedEuclid called on their own                   *)
(***************************************************************************)
\* extendedEuclid(a, b)
ExtendedEuclid(a, b) ==
    /\ build.pc = "idle"
    /\ call.op = "none"
    /\ call' = [op |-> "extendedEuclid", a |-> a, b |-> b,
                outcome |-> "returned", result |-> extendedEuclid(a, b)]
    /\ UNCHANGED <<temps, cells, build, hist, given, algebras, search>>

\* iteratedEuclid(params)
IteratedEuclid(params) ==
    /\ build.pc = "idle"
    /\ call.op = "none"
    /\ call' = [op |-> "iteratedEuclid", params |-> params,
                outcome |-> "returned", result |-> iteratedEuclid(params).coefs]
    /\ UNCHANGED <<temps, cells, build, hist, given, algebras, search>>

(***************************************************************************)
(* SpecEuclid: the Euclidean algorithms on small integers.                 *)
(***************************************************************************)
\* a and b are 1 .. MaxEuclid; params has up to MaxParams entries from 0 to
\* MaxParam.
MaxEuclid == 15

MaxParams == 3

MaxParam == 6

NextEuclid ==
    \/ \E a \in 1..MaxEuclid, b \in 1..MaxEuclid : ExtendedEuclid(a, b)
    \/ \E params \in ListsUpTo(0..MaxParam, MaxParams) : IteratedEuclid(params)
    \/ ForgetCall

SpecEuclid == Init /\ [][NextEuclid]_vars


(***************************************************************************)
(* fromWarts and toWarts                                                   *)
(***************************************************************************)
\* Strings are arrays of character codes: '0' is 48, 'a' is 97.
Zero_ == 48

LetterA == 97

\* isDigit(token[0]): false on the empty string.
isDigit(token) == token # << >> /\ token[1] \in Zero_..(Zero_ + 9)

\* The length of numString: the leading characters that are digits (the
\* tokens of the model have no '-').
RECURSIVE NumLength(_)
NumLength(token) ==
    IF isDigit(token) THEN 1 + NumLength(Tail(token)) ELSE 0

\* parseInt(numString) of a string of one or more digits.
RECURSIVE parseInt(_)
parseInt(numString) ==
    IF Len(numString) = 1 THEN numString[1] - Zero_
    ELSE 10 * parseInt(SubSeq(numString, 1, Len(numString) - 1))
           + (numString[Len(numString)] - Zero_)

\* divisions.toString() of a non-negative integer.
RECURSIVE toString(_)
toString(divisions) ==
    IF divisions < 10 THEN <<Zero_ + divisions>>
    ELSE Append(toString(divisions \div 10), Zero_ + (divisions % 10))

\* The keys of `counts` in the order of insertion.
RECURSIVE Keys(_)
Keys(warts) ==
    IF warts = << >> THEN << >>
    ELSE LET front == SubSeq(warts, 1, Len(warts) - 1)
             last == warts[Len(warts)]
         IN  IF \E k \in 1..Len(front) : front[k] = last THEN Keys(front)
             ELSE Append(Keys(front), last)

\* counts.get(index)
Count(warts, index) == Cardinality({k \in 1..Len(warts) : warts[k] = index})

\* The modification of a count of warts, all taken in the first direction.
ModificationOneWay(count) == (count + 1) \div 2

\* Math.floor((count + 1) / 2) * (2 * (count % 2) - 1)
Modification(count) == ((count + 1) \div 2) * (2 * (count % 2) - 1)

\* toDivisionsModifications(token) of a string.
toDivisionsModifications(token) ==
    LET numString == SubSeq(token, 1, NumLength(token))
        rest == SubSeq(token, NumLength(token) + 1, Len(token))
        warts == [k \in 1..Len(rest) |-> rest[k] - LetterA]
        keys == Keys(warts)
    IN  [divisions |-> parseInt(numString),
         modifications |-> [k \in 1..Len(keys) |->
                              <<keys[k], Modification(Count(warts, keys[k]))>>]]

\* patentVal(divisions, jip) of the n-factor prime limit.
patentVal(divisions, n) == PatentBase(n, divisions)

\* jip[index] * divisionsPerLogEquave > patent[index], the indices from 0.
AbovePatent(divisions, patent, index) ==
    normalizedMapping[index + 1] * divisions > patent[index + 1] * LogScale

\* modifications.forEach(...), from the modification k on.
RECURSIVE Modify(_, _, _, _)
Modify(result, divisions, modifications, k) ==
    IF k > Len(modifications) THEN result
    ELSE LET index == modifications[k][1]
             modification == modifications[k][2]
         IN  Modify([result EXCEPT ![index + 1] =
                        IF AbovePatent(divisions, result, index)
                        THEN @ + modification ELSE @ - modification],
                    divisions, modifications, k + 1)

\* fromWarts(token, jip), the letters of the token being below the n-th.
fromWarts(token, n) ==
    LET dm == toDivisionsModifications(token)
    IN  Modify(patentVal(dm.divisions, n), dm.divisions, dm.modifications, 1)

\* The count of letters toWarts writes for an index.
WartCount(val, patent, index) ==
    LET modification == val[index + 1] - patent[index + 1]
        count == 2 * Abs(modification)
    IN  IF AbovePatent(val[1], patent, index)
        THEN IF modification > 0 THEN count - 1 ELSE count
        ELSE IF modification < 0 THEN count - 1 ELSE count

\* The loop of toWarts from `index` on.
RECURSIVE Letters(_, _, _)
Letters(val, patent, index) ==
    IF index >= Len(val) THEN << >>
    ELSE [i \in 1..WartCount(val, patent, index) |-> LetterA + index]
            \o Letters(val, patent, index + 1)

\* toWarts(val, jip)
toWarts(val) ==
    toString(val[1]) \o Letters(val, patentVal(val[1], Len(val)), 0)

\* fromWarts(token, jip) called on a string.
FromWarts(token) ==
    /\ build.pc = "idle"
    /\ call.op = "none"
    /\ call' = [op |-> "fromWarts", token |-> token, outcome |-> "returned",
                val |-> fromWarts(token, JoinDim), result |-> << >>]
    /\ UNCHANGED <<temps, cells, build, hist, given, algebras, search>>

\* toWarts(val, jip) called on the val fromWarts returned.
ToWarts ==
    /\ call.op = "fromWarts"
    /\ call' = [call EXCEPT !.op = "toWarts", !.result = toWarts(call.val)]
    /\ UNCHANGED <<temps, cells, build, hist, given, algebras, search>>

(***************************************************************************)
(* SpecWarts: wart tokens of the 5-limit.                                  *)
(***************************************************************************)
\* Up to MaxWarts letters b and c in any order after one of the numerals.
MaxWarts == 5

Numerals == {<<49>>, <<53>>, <<55>>, <<49, 50>>, <<49, 55>>, <<50, 50>>,
             <<48, 55>>}

WartTokens ==
    {numeral \o letters :
        numeral \in Numerals,
        letters \in ListsUpTo({LetterA + 1, LetterA + 2}, MaxWarts)}

NextWarts ==
    \/ \E token \in WartTokens : FromWarts(token)
    \/ ToWarts
    \/ ForgetCall

SpecWarts == Init /\ [][NextWarts]_vars


(***************************************************************************)
(* resolveMonzo of an array, with the arrays it reads and writes           *)
(***************************************************************************)
\* The arrays of a call: `interval` is the caller's, `primeMonzo` the copy
\* toMonzo_ makes and `result` the array returned.
ArraysOf(interval) ==
    [interval |-> interval, primeMonzo |-> << >>, result |-> << >>]

\* The forEach of toMonzo_ from the index i on: `primeMonzo` names the array
\* whose components are read and subtracted from.
RECURSIVE SimpleLoop(_, _, _, _, _)
SimpleLoop(arrays, primeMonzo, monzos, indices, i) ==
    IF i > Len(indices) THEN arrays
    ELSE LET index == indices[i]
         IN  IF index > Len(arrays[primeMonzo])
             THEN SimpleLoop([arrays EXCEPT !.result = Append(@, 0)],
                             primeMonzo, monzos, indices, i + 1)
             ELSE LET component == div(arrays[primeMonzo][index],
                                       monzos[i][index])
                      pushed == [arrays EXCEPT !.result = Append(@, component)]
                  IN  SimpleLoop([pushed EXCEPT ![primeMonzo][index] =
                                     @ - component * monzos[i][index]],
                                 primeMonzo, monzos, indices, i + 1)

\* toMonzo_ without primeMonzo = [...primeMonzo].
toMonzoInPlace_(arrays, monzos) ==
    SimpleLoop(arrays, "interval", monzos, simpleIndices(monzos, 1), 1)

\* this.toMonzo_(primeMonzo) when simpleIndices is not empty.
toMonzoArrays_(arrays, monzos) ==
    SimpleLoop([arrays EXCEPT !.primeMonzo = arrays.interval], "primeMonzo",
               monzos, simpleIndices(monzos, 1), 1)

\* this.resolveMonzo(interval, primeMapping) of an array of numbers: the
\* arrays after the call.
resolveMonzoArray(basis, interval, primeMapping) ==
    IF primeMapping
    THEN toMonzoArrays_(ArraysOf(interval), basisMonzos(basis))
    ELSE [ArraysOf(interval) EXCEPT !.result = Padded(interval, Len(basis))]

\* subgroup.resolveMonzo(interval, primeMapping) of an array, on the
\* subgroup just constructed. With primeMapping the factors are powers of
\* one prime each; other bases go through a linear solver that is not
\* modelled.
ResolveArray(interval, primeMapping) ==
    /\ build.pc = "idle"
    /\ call.op = "new Subgroup"
    /\ call.outcome = "returned"
    /\ primeMapping => simpleIndices(basisMonzos(call.basis), 1) # << >>
    /\ call' = [op |-> "resolveMonzo", given |-> interval, basis |-> call.basis,
                primeMapping |-> primeMapping, outcome |-> "returned",
                arrays |-> resolveMonzoArray(call.basis, interval, primeMapping)]
    /\ UNCHANGED <<temps, cells, build, hist, given, algebras, search>>

(***************************************************************************)
(* SpecArrays: monzo arrays resolved in subgroups of prime powers.         *)
(***************************************************************************)
\* Arrays of up to MaxMonzo components.
MaxMonzo == 3

MonzoArrays == ListsUpTo({-3, 0, 2}, MaxMonzo)

NextArrays ==
    \/ \E basis \in PowerBases : ConstructSubgroup(basis)
    \/ \E interval \in MonzoArrays, primeMapping \in BOOLEAN :
          ResolveArray(interval, primeMapping)
    \/ ForgetCall

SpecArrays == Init /\ [][NextArrays]_vars


(***************************************************************************)
(* vanishCommas                                                            *)
(***************************************************************************)
\* x + y of JavaScript.
Plus(x, y) ==
    IF x.type = "NaN" \/ y.type = "NaN" THEN NaN
    ELSE IF x.type = "Infinity"
         THEN IF y.type = "Infinity" /\ y.value # x.value THEN NaN ELSE x
    ELSE IF y.type = "Infinity" THEN y
    ELSE LET g == gcd(x.value[2], y.value[2])
         IN  Number(x.value[1] * (y.value[2] \div g)
                      + y.value[1] * (x.value[2] \div g),
                    (x.value[2] \div g) * y.value[2])

\* x - y of JavaScript.
Minus(x, y) == Plus(x, Times(Number(-1, 1), y))

\* dot(a, b) of two arrays of one length, from the index i on.
RECURSIVE DotFrom(_, _, _)
DotFrom(a, b, i) ==
    IF i > Len(a) THEN Number(0, 1)
    ELSE Plus(Times(a[i], b[i]), DotFrom(a, b, i + 1))

\* scalarMul(scalar, monzo)
scalarMul(scalar, monzo) == [i \in 1..Len(monzo) |-> Times(scalar, monzo[i])]

\* subInPlace(a, b): the array a after the call; a component b does not
\* have is undefined.
subInPlace(a, b) ==
    [i \in 1..Len(a) |-> IF i <= Len(b) THEN Minus(a[i], b[i]) ELSE NaN]

\* The body of the inner loop with delta[0] left as computed.
AdjustedTempered(mapping, comma, temperEquaves) ==
    LET scalar == Divide(DotFrom(mapping, comma, 1), DotFrom(comma, comma, 1))
    IN  subInPlace(mapping, scalarMul(scalar, comma))

\* The body of the inner loop: delta = scalarMul(dot(mapping, comma), comma)
\* of the comma divided by its norm, delta[0] = 0 unless the equaves are
\* tempered, subInPlace(mapping, delta). The comma is held before the
\* division by its norm and the product is divided by the squared norm.
Adjusted(mapping, comma, temperEquaves) ==
    LET scalar == Divide(DotFrom(mapping, comma, 1), DotFrom(comma, comma, 1))
        delta_ == scalarMul(scalar, comma)
    IN  subInPlace(mapping, IF ~temperEquaves
                            THEN [delta_ EXCEPT ![1] = Number(0, 1)]
                            ELSE delta_)

\* for (const comma of normalizedCommas), from the comma k on.
RECURSIVE AdjustAll(_, _, _, _)
AdjustAll(mapping, commas, temperEquaves, k) ==
    IF k > Len(commas) THEN mapping
    ELSE AdjustAll(Adjusted(mapping, commas[k], temperEquaves), commas,
                   temperEquaves, k + 1)

MaxIterations == 2

\* The most passes of the inner loop in one call, which keeps the ratios
\* within the integers of the checker.
MaxProjections == 2

\* vanishCommas(commas, jip, weights, temperEquaves, units,
\* numberOfIterations) up to its loop, the jip given in semitones. `weights`
\* is a list of none (undefined) or one array.
VanishCommas(commas, jip, weights, temperEquaves, numberOfIterations) ==
    /\ search.pc = "idle"
    /\ Len(commas) * numberOfIterations <= MaxProjections
    /\ LET n == Len(jip)
           given_ == IF weights = << >>
                     THEN [i \in 1..n |-> Divide(Number(1, 1), Number(jip[i], 1))]
                     ELSE [i \in 1..n |-> Number(weights[1][i], 1)]
           weights_ == [i \in 1..n |-> Divide(given_[i], given_[1])]
       IN  search' =
             [pc |-> "vanishCommas", jip |-> jip, weights |-> weights_,
              temperEquaves |-> temperEquaves,
              numberOfIterations |-> numberOfIterations, i |-> 0,
              mapping |-> [i \in 1..n |-> Times(Number(jip[i], 1), weights_[i])],
              normalizedCommas |->
                 [k \in 1..Len(commas) |->
                    [i \in 1..Len(commas[k]) |->
                       Divide(Number(commas[k][i], 1), weights_[i])]]]
    /\ UNCHANGED <<temps, cells, build, hist, call, given, algebras>>

\* One iteration of the outer loop.
Iterate ==
    /\ search.pc = "vanishCommas"
    /\ search.i < search.numberOfIterations
    /\ search' = [search EXCEPT
                    !.i = @ + 1,
                    !.mapping = AdjustAll(search.mapping, search.normalizedCommas,
                                          search.temperEquaves, 1)]
    /\ UNCHANGED <<temps, cells, build, hist, call, given, algebras>>

\* After the loop: mapping.map((m, i) => m / weights[i]) is returned.
ReturnMapping ==
    /\ search.pc = "vanishCommas"
    /\ search.i >= search.numberOfIterations
    /\ search' = [search EXCEPT
                    !.pc = "vanished",
                    !.mapping = [i \in 1..Len(search.mapping) |->
                                   Divide(search.mapping[i], search.weights[i])]]
    /\ UNCHANGED <<temps, cells, build, hist, call, given, algebras>>

\* The caller is done with the mapping.
Drop ==
    /\ search.pc = "vanished"
    /\ search' = NoSearch
    /\ UNCHANGED <<temps, cells, build, hist, call, given, algebras>>

(***************************************************************************)
(* SpecVanish: commas of 2.3.5 made to vanish.                             *)
(***************************************************************************)

\* 16/15, 9/8 and 1/1, and the lists of up to two of them.
VanishingCommas ==
    ListsUpTo({<<4, -1, -1>>, <<-3, 2, 0>>, <<0, 0, 0>>}, 2)

\* Default weights, equal weights, a heavier first weight, and weights with
\* a zero.
VanishWeights ==
    {<< >>, <<<<1, 1, 1>>>>, <<<<2, 1, 1>>>>, <<<<0, 1, 1>>>>, <<<<1, 0, 1>>>>}

NextVanish ==
    \/ \E commas \in VanishingCommas, weights \in VanishWeights,
          temperEquaves \in BOOLEAN, numberOfIterations \in 0..MaxIterations :
          VanishCommas(commas, JipTwelfths, weights, temperEquaves,
                       numberOfIterations)
    \/ Iterate
    \/ ReturnMapping
    \/ Drop

SpecVanish == Init /\ [][NextVanish]_vars


(***************************************************************************)
(* SpecRescale: joins and meets of two temperaments of one val or comma    *)
(* whose joins have no component of magnitude 1, at small persistences.    *)
(***************************************************************************)
RescalePersistences == {1, 2, 3}

RescaleVectors == {<<2, 3, 0>>, <<2, 0, 3>>, <<0, 1, 2>>}

NextRescale ==
    \/ \E s \in {"A", "B"}, vals \in ListsUpTo(RescaleVectors, MaxJoinInputs) :
          NewFromVals(s, JoinBasis, vals)
    \/ \E s \in {"A", "B"}, commas \in ListsUpTo(RescaleVectors, MaxJoinInputs) :
          NewFromCommas(s, JoinBasis, commas)
    \/ \E p \in RescalePersistences, t \in Thresholds, c \in Scales :
          ValJoin("A", "B", "R", p, t, c)
    \/ \E p \in RescalePersistences, t \in Thresholds, c \in Scales :
          ValMeet("A", "B", "R", p, t, c)
    \/ Discard

SpecRescale == Init /\ [][NextRescale]_vars


(***************************************************************************)
(* SpecGenerators: periods and generators of temperaments over 2.3.5.7.11  *)
(* of one comma (rank 4) or two commas (rank 3).                           *)
(***************************************************************************)
GeneratorDim == 5

GeneratorBasis == Subgroup([i \in 1..GeneratorDim |-> <<PRIMES[i], 1>>])

\* One comma with the exponent -1 of 2 and exponents 0, 1 or 2 of the other
\* primes, or up to two of three such commas.
GeneratorCommas ==
    {<<c>> : c \in {d \in [1..GeneratorDim -> {-1, 0, 1, 2}] :
                      d[1] = -1 /\ \A i \in 2..GeneratorDim : d[i] >= 0}}
    \cup ListsUpTo({<<-1, 1, 0, 0, 0>>, <<-1, 0, 1, 2, 2>>, <<-1, 2, 0, 1, 0>>}, 2)

NextGenerators ==
    \/ \E commas \in GeneratorCommas : NewFromCommas("A", GeneratorBasis, commas)
    \/ Canonize("A")
    \/ NumPeriodsGenerators("A")
    \/ Forget
    \/ Discard

SpecGenerators == Init /\ [][NextGenerators]_vars


(***************************************************************************)
(* valFactorize over the generalized patent vals and over the warts        *)
(***************************************************************************)
\* The generator generalizedPatentVals(jip, initialDivisions,
\* finalDivisions) at its first yield.
Generator(n, initialDivisions, finalDivisions, maxBisections) ==
    [pc |-> "generalizedPatentVals", n |-> n,
     initialDivisions |-> initialDivisions,
     finalDivisions |-> finalDivisions,
     maxBisections |-> maxBisections,
     lastSize |-> 0,
     last |-> ValAt(n, initialDivisions, maxBisections, 0),
     nextSize |-> Pow2(maxBisections),
     next |-> ValAt(n, initialDivisions, maxBisections, Pow2(maxBisections)),
     numBisect |-> 0,
     previous |-> << >>, yields |-> 1, yielded |-> TRUE]

\* One round of the loop that never moves nextSize on.
ResumedInPlace(w) ==
    LET d == distance(w.last, w.next)
    IN  IF d = 0
        THEN Looping([w EXCEPT !.yielded = FALSE])
        ELSE IF d = 1 \/ w.numBisect >= w.maxBisections
        THEN Looping([w EXCEPT !.lastSize = w.nextSize, !.last = w.next,
                               !.previous = <<w.last>>, !.yields = @ + 1,
                               !.yielded = TRUE])
        ELSE LET nextSize == w.nextSize - (w.nextSize - w.lastSize) \div 2
             IN  Looping([w EXCEPT
                    !.nextSize = nextSize,
                    !.next = ValAt(w.n, w.initialDivisions, w.maxBisections,
                                   nextSize),
                    !.numBisect = @ + 1, !.yielded = FALSE])

\* One round of the do-while loop of the generator w: a leap, a yield or a
\* bisection, and the test of the loop.
Resumed(w) ==
    LET d == distance(w.last, w.next)
    IN  IF d = 0
        THEN LET nextSize == w.nextSize + Pow2(w.maxBisections)
             IN  Looping([w EXCEPT
                    !.lastSize = w.nextSize,
                    !.nextSize = nextSize,
                    !.next = ValAt(w.n, w.initialDivisions, w.maxBisections,
                                   nextSize),
                    !.yielded = FALSE])
        ELSE IF d = 1 \/ w.numBisect >= w.maxBisections
        THEN Looping([w EXCEPT !.lastSize = w.nextSize, !.last = w.next,
                               !.previous = <<w.last>>, !.yields = @ + 1,
                               !.yielded = TRUE])
        ELSE LET nextSize == w.nextSize - (w.nextSize - w.lastSize) \div 2
             IN  Looping([w EXCEPT
                    !.nextSize = nextSize,
                    !.next = ValAt(w.n, w.initialDivisions, w.maxBisections,
                                   nextSize),
                    !.numBisect = @ + 1, !.yielded = FALSE])

\* this.valFactorize(minDivisions, maxDivisions, wartRadius, 'GPV') up to
\* the first val of generalizedPatentVals(mapping, minDivisions,
\* maxDivisions). `variant` is 0 while the generator runs.
ValFactorizeWalk(s, minDivisions, maxDivisions, wartRadius, maxBisections) ==
    /\ build.pc = "idle"
    /\ temps[s].live
    /\ search.pc = "idle"
    /\ search' = [pc |-> "valFactorize", this |-> s, strategy |-> "GPV",
                  minDivisions |-> minDivisions, maxDivisions |-> maxDivisions,
                  wartRadius |-> wartRadius,
                  divisions |-> minDivisions, variant |-> 1, tried |-> 0,
                  hyperwedge |-> Scalar(Dim(s)), factors |-> << >>,
                  walk |-> Generator(Dim(s), minDivisions, maxDivisions,
                                     maxBisections)]
    /\ UNCHANGED <<temps, cells, build, hist, call, given, algebras>>

\* One iteration of the inner loop of the strategy 'GPV': the next variant
\* of the val the generator yielded last.
WalkVariant ==
    /\ search.pc = "valFactorize"
    /\ search.strategy = "GPV"
    /\ search.variant >= 1
    /\ \E variants \in {wartVariants(search.walk.last, search.wartRadius)} :
       LET s == search.this
           variant == variants[search.variant]
           k == IF search.variant = Len(variants) THEN 0 ELSE search.variant + 1
       IN  search' =
             IF ReduceGcd(variant) # 1
             THEN [search EXCEPT !.variant = k]
             ELSE Pushed(pushAndWedge(Dim(s), Value(s), search.hyperwedge,
                                      search.factors, variant),
                         search.divisions, k)
    /\ UNCHANGED <<temps, cells, build, hist, call, given, algebras>>

\* The for-of loop asks the generator for its next val: one round of the
\* generator's loop, or, the generator having returned, the throw that
\* follows the loops.
ResumeWalk ==
    /\ search.pc = "valFactorize"
    /\ search.strategy = "GPV"
    /\ search.variant = 0
    /\ search' =
         IF search.walk.pc = "done"
         THEN [search EXCEPT
                 !.pc = "Val factorization not found within the search space"]
         ELSE LET w == Resumed(search.walk)
              IN  [search EXCEPT !.walk = w,
                                 !.variant = IF w.yielded THEN 1 ELSE 0]
    /\ UNCHANGED <<temps, cells, build, hist, call, given, algebras>>

\* subgroup.wartLetters() of a prime limit: a, b, c, ...
wartLetters(n) == [i \in 1..n |-> LetterA + i - 1]

\* vary(letters, base, radius) of valFactorize: the vals of the tokens made
\* of base and `radius` letters. VaryLetter is its for loop from letter i.
RECURSIVE varyWarts(_, _, _, _)
RECURSIVE VaryLetter(_, _, _, _, _)
varyWarts(n, letters, base, radius) ==
    IF radius <= 0 THEN <<fromWarts(base, n)>>
    ELSE VaryLetter(n, letters, base, radius, 1)

VaryLetter(n, letters, base, radius, i) ==
    IF i > Len(letters) THEN << >>
    ELSE varyWarts(n, letters, Append(base, letters[i]), radius - 1)
            \o VaryLetter(n, letters, base, radius, i + 1)

\* The candidates of one number of divisions under 'warts': those of the
\* radii 0 .. wartRadius one after the other, from `radius` on.
RECURSIVE WartCandidates(_, _, _, _)
WartCandidates(n, divisions, wartRadius, radius) ==
    IF radius > wartRadius THEN << >>
    ELSE varyWarts(n, SubSeq(wartLetters(n), 2, n), toString(divisions), radius)
            \o WartCandidates(n, divisions, wartRadius, radius + 1)

\* One iteration of the innermost loop of the strategy 'warts'.
WartsVariant ==
    /\ search.pc = "valFactorize"
    /\ search.strategy = "warts"
    /\ search.divisions <= search.maxDivisions
    /\ \E variants \in {WartCandidates(Dim(search.this), search.divisions,
                                        search.wartRadius, 0)} :
       LET s == search.this
           n == Dim(s)
           last == search.variant = Len(variants)
           divisions == IF last THEN search.divisions + 1 ELSE search.divisions
           k == IF last THEN 1 ELSE search.variant + 1
       IN  search' = Pushed(pushAndWedge(n, Value(s), search.hyperwedge,
                                         search.factors,
                                         variants[search.variant]),
                            divisions, k)
    /\ UNCHANGED <<temps, cells, build, hist, call, given, algebras>>

(***************************************************************************)
(* SpecTerminate: valFactorize of temperaments over 2.3.5 under 'patent',  *)
(* 'GPV' and 'warts', and walks over the generalized patent vals, each     *)
(* running on once started.                                                *)
(***************************************************************************)
\* The searches that are under way, and those that have ended.
Running == {"valFactorize", "generalizedPatentVals"}

\* The loops over the divisions of 'patent' and 'warts' have ended: the throw
\* that follows them.
LoopsEnd ==
    /\ search.pc = "valFactorize"
    /\ search.strategy # "GPV"
    /\ search.divisions > search.maxDivisions
    /\ NotFound

\* The divisions the factorizations start at.
FirstDivisions == 2

NextTerminate ==
    \/ \E commas \in FactorCommas : NewFromCommas("A", JoinBasis, commas)
    \/ \E wartRadius \in 0..MaxRadius, strategy \in {"patent", "warts"} :
          ValFactorize("A", FirstDivisions, FewDivisions, wartRadius, strategy)
    \/ \E wartRadius \in 0..MaxRadius :
          ValFactorizeWalk("A", FirstDivisions, FewDivisions, wartRadius,
                           MinBisections)
    \/ PatentVariant
    \/ WalkVariant
    \/ ResumeWalk
    \/ WartsVariant
    \/ LoopsEnd
    \/ \E n \in 2..3, initialDivisions \in 1..MaxInitial, span \in 0..MaxSpan :
          GeneralizedPatentVals(n, initialDivisions, initialDivisions + span,
                                MinBisections)
    \/ Leap
    \/ YieldNext
    \/ Bisect
    \/ Exhausted
    \/ search.pc \notin Running /\ Discard

\* A call that is under way takes its next step.
Progress ==
    \/ PatentVariant
    \/ WalkVariant
    \/ ResumeWalk
    \/ WartsVariant
    \/ LoopsEnd
    \/ Leap
    \/ YieldNext
    \/ Bisect

SpecTerminate == Init /\ [][NextTerminate]_vars /\ WF_vars(Progress)


(***************************************************************************)
(* Claims about the constructors, under Spec.                              *)
(***************************************************************************)
\* The rank of a value is r (false of a nil value, whose rank is undefined).
RankIs(n, X, r) == ~IsNil(n, X) /\ getRank(n, X) = r

\* C1: fromVals folds from the scalar 1; a val whose wedge with the running
\* value is nil is discarded and the running value stays what it was; the
\* running value is never nil; the rank of the running value, and of the
\* temperament returned, is the number of vals accepted.
C1_FromValsFold ==
    /\ build.pc = "fromVals" =>
         LET n == Len(build.basis)
         IN  /\ ~IsNil(n, build.value)
             /\ build.supplied = 0 => build.value = Scalar(n)
             /\ build.supplied > 0 =>
                  IF IsNil(n, build.raw) THEN build.value = build.prev
                                         ELSE build.value = build.raw
             /\ RankIs(n, build.value, build.accepted)
    /\ \A s \in Slots :
         (temps[s].live /\ hist[s].made = "fromVals" /\ hist[s].canonized = 0)
            => RankIs(Dim(s), Value(s), hist[s].accepted)

\* Three vals were supplied, one of them was discarded, the rank is 2.
C1_Witness ==
    \E s \in Slots :
        /\ temps[s].live /\ hist[s].made = "fromVals" /\ hist[s].canonized = 0
        /\ hist[s].supplied = 3 /\ hist[s].accepted = 2
        /\ getRank(Dim(s), Value(s)) = 2

\* C2: fromCommas folds from the pseudoscalar; a comma whose dual vees the
\* running value to nil is discarded and the running value stays what it
\* was; the rank of the running value, and of the temperament returned, is n
\* minus the number of commas accepted.
C2_FromCommasFold ==
    /\ build.pc = "fromCommas" =>
         LET n == Len(build.basis)
         IN  /\ ~IsNil(n, build.value)
             /\ build.supplied = 0 => build.value = Pseudoscalar(n)
             /\ build.supplied > 0 =>
                  IF IsNil(n, build.raw) THEN build.value = build.prev
                                         ELSE build.value = build.raw
             /\ RankIs(n, build.value, n - build.accepted)
    /\ \A s \in Slots :
         (temps[s].live /\ hist[s].made = "fromCommas" /\ hist[s].canonized = 0)
            => RankIs(Dim(s), Value(s), Dim(s) - hist[s].accepted)

\* Three commas were supplied over three factors, one was discarded, rank 1.
C2_Witness ==
    \E s \in Slots :
        /\ temps[s].live /\ hist[s].made = "fromCommas" /\ hist[s].canonized = 0
        /\ Dim(s) = 3 /\ hist[s].supplied = 3 /\ hist[s].accepted = 2
        /\ getRank(Dim(s), Value(s)) = 1

\* C6: with no vals fromVals returns the scalar 1, of rank 0; with no commas
\* fromCommas returns the unit pseudoscalar, of rank n; over one factor or
\* more the two values differ.
C6_EmptyInputs ==
    \A s \in Slots :
        (temps[s].live /\ hist[s].supplied = 0 /\ hist[s].canonized = 0) =>
            LET n == Dim(s)
            IN  /\ hist[s].made = "fromVals" =>
                     /\ Value(s) = Scalar(n)
                     /\ RankIs(n, Value(s), 0)
                     /\ n >= 1 => ~ValueEquals(n, Value(s), Pseudoscalar(n))
                /\ hist[s].made = "fromCommas" =>
                     /\ Value(s) = Pseudoscalar(n)
                     /\ RankIs(n, Value(s), n)
                     /\ n >= 1 => ~ValueEquals(n, Value(s), Scalar(n))

\* fromCommas([], subgroup) over three factors has returned.
C6_Witness ==
    \E s \in Slots :
        /\ temps[s].live /\ hist[s].made = "fromCommas"
        /\ hist[s].supplied = 0 /\ hist[s].canonized = 0 /\ Dim(s) = 3

(***************************************************************************)
(* Claims about canonize, under SpecCanon.                                 *)
(***************************************************************************)
\* C4: after canonize() of a value with a non-zero component, every
\* component is the component before times sign/gcd (so component * gcd =
\* sign * component before), the gcd of the components is 1 and the first
\* non-zero component in the order of ganja() is positive; a nil value is
\* left as it is.
C4_CanonizeScales ==
    \A s \in Slots :
        (temps[s].live /\ hist[s].canonized >= 1) =>
            LET n == Dim(s)
                before == hist[s].pre
                after == Value(s)
            IN  IF IsNil(n, before) THEN after = before
                ELSE /\ \A S \in Blades(n) :
                          after[S] * CommonFactor(n, before)
                             = FirstSign(n, before) * before[S]
                     /\ CommonFactor(n, after) = 1
                     /\ FirstSign(n, after) = 1

\* C5: a second canonize() leaves every component as the first one left it.
C5_CanonizeIdempotent ==
    \A s \in Slots :
        (temps[s].live /\ hist[s].canonized >= 2) => Value(s) = hist[s].pre

(***************************************************************************)
(* Claims about the two constructions of one temperament, under SpecEquiv. *)
(***************************************************************************)
\* C3: for two linearly independent vals V, W and a comma spanning their
\* common kernel (n = 3), the canonized value of fromVals([V, W]) equals,
\* component for component, the canonized value of fromCommas([comma]).
C3_ValsAndCommasAgree ==
    ( /\ temps["A"].live /\ hist["A"].made = "fromVals" /\ hist["A"].canonized = 1
      /\ temps["B"].live /\ hist["B"].made = "fromCommas" /\ hist["B"].canonized = 1
      /\ Len(given.vals) = 2 /\ Len(given.commas) = 1
      /\ hist["A"].accepted = 2
      /\ \A i \in 1..2 : Dot(given.commas[1], given.vals[i]) = 0 )
    => \A S \in Blades(Dim("A")) : Value("A")[S] = Value("B")[S]

(***************************************************************************)
(* Claims about equals, under SpecEq.                                      *)
(***************************************************************************)
\* C7: A.equals(B) returns a boolean, and returns true exactly when the two
\* bases have the same length and equal factors at every index and the two
\* values are equal component by component; the empty basis included.
C7_EqualsIsBasisAndValue ==
    call.op = "equals" =>
        /\ call.outcome \in {"true", "false"}
        /\ call.outcome = "true" <=>
             /\ Len(temps["A"].basis) = Len(temps["B"].basis)
             /\ \A i \in 1..Len(temps["A"].basis) :
                    temps["A"].basis[i] = temps["B"].basis[i]
             /\ \A S \in Blades(Dim("A")) : Value("A")[S] = Value("B")[S]

(***************************************************************************)
(* Claims about join and meet, under SpecJoin.                             *)
(***************************************************************************)
\* The outcome of a call whose result is res.
OutcomeOf(res) == IF res.error = "none" THEN "returned" ELSE res.error

\* C8: with the default persistence, for linearly independent vals a and b
\* valJoin(fromVals([a]), fromVals([b])) returns and, canonized, equals
\* fromVals([a, b]) canonized; and for a temperament M and a val c that
\* supports M (the wedge of M and c is nil), valJoin(M, fromVals([c]))
\* returns and, canonized, equals M canonized.
C8_ValJoinIsSmallest ==
    ( /\ call.op = "valJoin"
      /\ call.persistence = DefaultPersistence
      /\ hist["B"].made = "fromVals" /\ hist["B"].accepted = 1 ) =>
        LET n == Dim("A")
            M == call.this.value
            b == Vector(n, call.other.value)
        IN  /\ ( /\ hist["A"].made = "fromVals" /\ hist["A"].accepted = 1
                 /\ Independent(n, Vector(n, M), b) ) =>
                   /\ call.outcome = "returned"
                   /\ hist["R"].canonized = 1 =>
                        Value("R") = canonize(n, fromVals(n, <<Vector(n, M), b>>))
            /\ IsNil(n, Wedge(n, M, FromVector(n, b))) =>
                   /\ call.outcome = "returned"
                   /\ hist["R"].canonized = 1 => Value("R") = canonize(n, M)

\* C9: A.kernelMeet(B, persistence, threshold) has the outcome of
\* A.valJoin(B, persistence, threshold), and A.kernelJoin(B, ...) the outcome
\* of A.valMeet(B, ...): an error in the same cases and, when they return,
\* the same value over the same subgroup.
C9_KernelDuals ==
    /\ call.op = "kernelMeet" =>
         LET res == valJoin(Dim("A"), call.this.value, call.other.value,
                            call.persistence, call.threshold, call.scale)
         IN  /\ call.outcome = OutcomeOf(res)
             /\ call.outcome = "returned" =>
                  /\ call.value = res.value
                  /\ temps["R"].basis = call.this.basis
    /\ call.op = "kernelJoin" =>
         LET res == valMeet(Dim("A"), call.this.value, call.other.value,
                            call.persistence, call.threshold, call.scale)
         IN  /\ call.outcome = OutcomeOf(res)
             /\ call.outcome = "returned" =>
                  /\ call.value = res.value
                  /\ temps["R"].basis = call.this.basis

\* kernelMeet raised at a persistence other than the default, where valJoin
\* raises too.
C9_Witness ==
    /\ call.op = "kernelMeet"
    /\ call.outcome # "returned"
    /\ call.persistence # DefaultPersistence

\* C10: after valJoin, valMeet, kernelMeet or kernelJoin, returned or
\* raised, both operands have the value and the subgroup they had when the
\* call was made, also after canonize() of the temperament returned.
C10_OperandsUnchanged ==
    call.op \in JoinOps =>
        /\ temps["A"].live /\ temps["B"].live
        /\ temps["A"].basis = call.this.basis
        /\ temps["B"].basis = call.other.basis
        /\ Value("A") = call.this.value
        /\ Value("B") = call.other.value

\* A join or meet has returned a temperament that canonize() then changed.
C10_Witness ==
    /\ call.op \in JoinOps
    /\ call.outcome = "returned"
    /\ hist["R"].canonized >= 1
    /\ Value("R") # call.value

(***************************************************************************)
(* Claims about valFactorize, under SpecFactor.                            *)
(***************************************************************************)
\* The wedge product of the vals of a list, in order.
RECURSIVE WedgeAll(_, _)
WedgeAll(n, vals) ==
    IF vals = << >> THEN Scalar(n)
    ELSE Wedge(n, WedgeAll(n, SubSeq(vals, 1, Len(vals) - 1)),
               FromVector(n, vals[Len(vals)]))

\* C11: when valFactorize returns, under any strategy, it returns exactly
\* rank vals, each val supports the temperament (its wedge with the value is
\* nil), and the wedge product of the vals in order is the value or its
\* negation.
C11_FactorsRecreate ==
    search.pc = "returned" =>
        LET n == Dim(search.this)
            value == Value(search.this)
            W == WedgeAll(n, search.factors)
        IN  /\ RankIs(n, value, Len(search.factors))
            /\ \A i \in 1..Len(search.factors) :
                  IsNil(n, Wedge(n, value, FromVector(n, search.factors[i])))
            /\ ValueEquals(n, W, value) \/ ValueEquals(n, W, Neg(n, value))

\* The patent strategy has factorized meantone into 5-edo and 7-edo.
C11_Witness ==
    /\ search.pc = "returned"
    /\ search.strategy = "patent"
    /\ search.factors = <<<<5, 8, 12>>, <<7, 11, 16>>>>

\* The candidates that the strategy 'patent' offers to pushAndWedge.
PatentCandidates(n, minDivisions, maxDivisions, wartRadius) ==
    UNION {{v \in {wartVariants(PatentBase(n, d), wartRadius)[k] :
                      k \in 1..Len(wartVariants(PatentBase(n, d), wartRadius))} :
               ReduceGcd(v) = 1} :
           d \in minDivisions..maxDivisions}

\* C12: valFactorize (strategy 'patent') raises 'Val factorization not found
\* within the search space' only if no choice of rank vals among the
\* candidates of minDivisions..maxDivisions and wartRadius has a wedge
\* product equal to the value or its negation.
C12_NotFoundOnlyIfAbsent ==
    ( /\ search.pc = "Val factorization not found within the search space"
      /\ search.strategy = "patent" ) =>
        LET n == Dim(search.this)
            value == Value(search.this)
            supporting == {v \in PatentCandidates(n, search.minDivisions,
                                                  search.maxDivisions,
                                                  search.wartRadius) :
                              IsNil(n, Wedge(n, value, FromVector(n, v)))}
        IN  ~\E vals \in [1..getRank(n, value) -> supporting] :
                \/ ValueEquals(n, WedgeAll(n, vals), value)
                \/ ValueEquals(n, WedgeAll(n, vals), Neg(n, value))

(***************************************************************************)
(* Claims about commaFactorize, under SpecComma.                           *)
(***************************************************************************)
\* The commas returned recreate the value up to sign, and for a corank of at
\* most 1 they are the one comma of the dual of the value.
CommasRecreate ==
    LET n == Dim(search.this)
        value == Value(search.this)
        again == fromCommas(n, search.result)
    IN  /\ ValueEquals(n, again, value) \/ ValueEquals(n, again, Neg(n, value))
        /\ search.corank <= 1 => search.result = <<Vector(n, Dual(n, value))>>

GcdOfComplement(n, value) ==
    GcdF([S \in Blades(n) |-> Abs(BasisDotL(n, 0, value)[S])], Blades(n))

\* C14: for a canonized temperament, with p the value contracted with the
\* basis unit of the first subgroup factor: of rank 1, the call returns the
\* gcd of the components of p and no generator; of rank 2, it returns the gcd
\* of the components of p and one generator monzo whose dot product with p
\* is that number or its negation.
C14_PeriodsAndGenerator ==
    ( /\ search.pc = "numPeriodsGenerators"
      /\ search.canonized >= 1 ) =>
        LET n == Dim(search.this)
            value == search.value
            p == Vector(n, BasisDotL(n, 0, value))
            r == search.result
        IN  /\ RankIs(n, value, 1) =>
                /\ r.outcome = "returned"
                /\ r.numPeriods = GcdOfComplement(n, value)
                /\ r.generators = << >>
            /\ RankIs(n, value, 2) =>
                /\ r.outcome = "returned"
                /\ r.numPeriods = GcdOfComplement(n, value)
                /\ Len(r.generators) = 1
                /\ Len(r.generators[1]) = n
                /\ Abs(Dot(r.generators[1], p)) = r.numPeriods

\* The call has returned one generator with earlier coefficients rescaled,
\* for a canonized temperament of rank 2.
C14_Witness ==
    /\ search.pc = "numPeriodsGenerators"
    /\ search.canonized >= 1
    /\ RankIs(Dim(search.this), search.value, 2)
    /\ search.result.outcome = "returned"
    /\ search.result.numPeriods = 1
    /\ search.result.generators[1][2] < 0

(***************************************************************************)
(* Claims about rankPrefix, under SpecPrefix.                              *)
(***************************************************************************)
\* The binomial coefficient C(n, k): the number of k-element subsets of n.
Choose(n, k) == IF n < 0 THEN 0 ELSE Cardinality({S \in SUBSET (1..n) : Cardinality(S) = k})

\* C15: rankPrefix(rank) returns, in order, exactly the first C(n-1, rank-1)
\* components of the grade-rank part of the value, with the rank of the
\* temperament when the argument is omitted, and leaves the temperament as
\* it is.
C15_PrefixOfGrade ==
    [][ (search.pc = "idle" /\ search'.pc = "rankPrefix") =>
          LET s == search'.this
              n == Dim(s)
              value == Value(s)
              rank == IF search'.rank = << >> THEN getRank(n, value)
                      ELSE search'.rank[1]
              part == GradeVector(n, value, <<rank>>)
              r == search'.result
          IN  /\ cells' = cells /\ temps' = temps
              /\ ~IsNil(n, value) =>
                   /\ r.outcome = "returned"
                   /\ Len(r.prefix) = Min({Choose(n - 1, rank - 1), Len(part)})
                   /\ \A i \in 1..Len(r.prefix) : r.prefix[i] = part[i] ]_vars

(***************************************************************************)
(* Claims about fromPrefix, under SpecRecover.                             *)
(***************************************************************************)
\* The temperament A is the canonized temperament t, and B was made by
\* fromPrefix from the rank and the rank prefix of A and canonized once.
Recovered(t) ==
    LET n == Len(t.basis)
        rank == getRank(n, Value("A"))
    IN  /\ temps["A"].live /\ temps["B"].live
        /\ temps["A"].basis = t.basis
        /\ hist["A"].canonized = 1
        /\ hist["A"].pre = fromCommas(n, t.commas)
        /\ hist["B"].made = "fromPrefix"
        /\ hist["B"].canonized = 1
        /\ hist["B"].pre = fromPrefix(n, rank, rankPrefix(n, Value("A"), <<rank>>).prefix)

\* C16: for meantone and augmented over 2.3.5 and miracle over 2.3.5.7, each
\* canonized as T, fromPrefix of the rank, of T.rankPrefix(rank) and of the
\* subgroup, canonized, equals T; the rank prefix of meantone is [1, 4], and
\* fromPrefix(2, [1, 4]) over 2.3.5, canonized, equals meantone.
C16_PrefixRecovers ==
    /\ \A t \in {Meantone, Augmented, Miracle} :
          Recovered(t) =>
             TemperamentEquals(temps["A"].basis, Value("A"),
                               temps["B"].basis, Value("B")) = "true"
    /\ ( /\ search.pc = "rankPrefix"
         /\ search.canonized = 1
         /\ search.rank = <<2>>
         /\ temps["A"].basis = Limit5
         /\ hist["A"].pre = fromCommas(3, Meantone.commas)
         /\ search.value = Value("A") ) =>
            /\ search.result.outcome = "returned"
            /\ search.result.prefix = <<1, 4>>
    /\ ( /\ temps["A"].live /\ temps["B"].live
         /\ temps["A"].basis = Limit5
         /\ hist["A"].canonized = 1
         /\ hist["A"].pre = fromCommas(3, Meantone.commas)
         /\ hist["B"].canonized = 1
         /\ hist["B"].pre = fromPrefix(3, 2, <<1, 4>>) ) =>
            TemperamentEquals(temps["A"].basis, Value("A"),
                              temps["B"].basis, Value("B")) = "true"

\* Miracle has been recovered from the prefix that rankPrefix(2) returned.
C16_Witness ==
    /\ Recovered(Miracle)
    /\ search.pc = "rankPrefix"
    /\ search.rank = <<2>>
    /\ search.result.prefix = <<6, -7, -2>>
    /\ hist["B"].supplied = 3

(***************************************************************************)
(* Claims about the Subgroup constructor, under SpecSubgroup.              *)
(***************************************************************************)
\* C17: every subgroup the constructor returns has factors that are
\* positive, different from 1 and pairwise distinct; for an array or a
\* string with a factor that is not positive, a factor 1 or the same factor
\* twice, the constructor raises.
C17_BasisIsValid ==
    call.op = "new Subgroup" =>
        /\ call.outcome = "returned" =>
              /\ \A i \in 1..Len(call.basis) :
                    call.basis[i][1] > 0 /\ ~FractionEquals(call.basis[i], <<1, 1>>)
              /\ \A i, j \in 1..Len(call.basis) :
                    i # j => ~FractionEquals(call.basis[i], call.basis[j])
        /\ ( /\ call.given.type \in {"string", "array"}
             /\ LET factors == call.given.factors
                IN  \/ \E i \in 1..Len(factors) :
                          factors[i][1] <= 0 \/ FractionEquals(factors[i], <<1, 1>>)
                    \/ \E i, j \in 1..Len(factors) :
                          i # j /\ FractionEquals(factors[i], factors[j]) ) =>
              call.outcome # "returned"

(***************************************************************************)
(* Claims about resolveMonzo, under SpecResolve.                           *)
(***************************************************************************)
\* Largest exponent tried for a factor.
MaxExponent == 4

\* The fraction f is the product of the factors, each to the power m[i].
IsProduct(f, basis, m) ==
    \A p \in 1..Len(PRIMES) :
        PrimeExponents(f)[p] =
        SumF([k \in 1..Len(basis) |-> m[k] * PrimeExponents(basis[k])[p]],
             1..Len(basis))

\* C18: resolveMonzo of a fraction raises 'Interval outside subgroup'
\* exactly when the fraction is not a product of integer powers of the
\* basis factors, and a monzo it returns has that product.
C18_ResolvesExactly ==
    (call.op = "resolveMonzo" /\ call.given.type = "fraction") =>
        LET f == call.given.fraction
            inside == \E m \in [1..Len(call.basis) -> -MaxExponent..MaxExponent] :
                         IsProduct(f, call.basis, m)
        IN  /\ call.outcome = "Interval outside subgroup" <=> ~inside
            /\ call.outcome = "returned" =>
                  /\ Len(call.monzo) = Len(call.basis)
                  /\ IsProduct(f, call.basis, call.monzo)

SameKey(i, j) ==
    /\ algebras.log[i].dimensions = algebras.log[j].dimensions
    /\ algebras.log[i].algebraType = algebras.log[j].algebraType

\* The getAlgebra calls of the log.
Gets == {i \in 1..Len(algebras.log) : algebras.log[i].op = "getAlgebra"}

\* A clearCache call lies between the calls i and j.
ClearedBetween(i, j) ==
    \E k \in (i + 1)..(j - 1) : algebras.log[k].op = "clearCache"

\* C20: two getAlgebra calls with the same dimensions and type and no
\* clearCache between them return the identical algebra; calls with another
\* type or other dimensions never return that algebra; the first getAlgebra
\* for a key after a clearCache returns an algebra no earlier call returned.
C20_CacheKeyedAndCleared ==
    \A i \in Gets, j \in Gets :
        i < j =>
           /\ (SameKey(i, j) /\ ~ClearedBetween(i, j)) =>
                 algebras.log[i].algebra = algebras.log[j].algebra
           /\ ~SameKey(i, j) => algebras.log[i].algebra # algebras.log[j].algebra
           /\ ( /\ ClearedBetween(i, j)
                /\ \A k \in Gets : (i < k /\ k < j /\ SameKey(k, j)) =>
                                      ClearedBetween(k, j) ) =>
                 algebras.log[i].algebra # algebras.log[j].algebra

\* The same key asked for twice, then the cache cleared, then the key asked
\* for again.
C20_Witness ==
    /\ Len(algebras.log) = MaxCalls
    /\ algebras.log[1].op = "getAlgebra"
    /\ algebras.log[2].op = "getAlgebra"
    /\ SameKey(1, 2)
    /\ algebras.log[3].op = "clearCache"
    /\ algebras.log[4].op = "getAlgebra"
    /\ SameKey(1, 4)
    /\ algebras.log[4].algebra = 2

(***************************************************************************)
(* Claims about generalizedPatentVals, under SpecWalk.                     *)
(***************************************************************************)
\* C21: any two consecutive vals yielded by generalizedPatentVals differ in
\* exactly one component, and by exactly 1 there, for the whole length of
\* the walk.
C21_OneStepAtATime ==
    (search.pc \in {"generalizedPatentVals", "done"}
        /\ search.yielded /\ search.previous # << >>)
    => distance(search.previous[1], search.last) = 1


(***************************************************************************)
(* Claims about getMapping, under SpecMapping.                             *)
(***************************************************************************)
\* The untempered size of the first basis factor, 2, in the units asked for.
SizeOfFirst(units) ==
    IF units = "nats" THEN LogOfFirst
    ELSE IF units = "semitones" THEN Number(12, 1)
    ELSE Number(1200, 1)

\* C22: getMapping without temperEquaves returns a mapping whose first
\* component is the exact size of the first basis factor in the units asked
\* for (1200 cents for the factor 2), and whose every component is the
\* component of the mapping with tempered equaves times one same factor.
C22_EquavePurified ==
    (call.op = "getMapping" /\ ~call.options.temperEquaves)
    => LET n == JoinDim
           tempered == getMapping(n, call.value,
                          [call.options EXCEPT !.temperEquaves = TRUE])
       IN  /\ call.result[1] = SizeOfFirst(call.options.units)
           /\ \E factor \in {Divide(call.result[1], tempered[1])} :
                \A i \in 1..n : call.result[i] = Times(tempered[i], factor)


(***************************************************************************)
(* Claims about the Euclidean algorithms, under SpecEuclid.                *)
(***************************************************************************)
\* C23: for positive integers a and b, extendedEuclid(a, b) returns
\* gcd = gcd(a, b), coefficients with a * coefA + b * coefB = gcd,
\* quotientA = a / gcd and quotientB = b / gcd.
C23_BezoutAndQuotients ==
    call.op = "extendedEuclid"
    => LET ee == call.result
           g == gcd(call.a, call.b)
       IN  /\ ee.gcd = g
           /\ call.a * ee.coefA + call.b * ee.coefB = ee.gcd
           /\ ee.quotientA = call.a \div g
           /\ ee.quotientB = call.b \div g

\* C24: iteratedEuclid returns one coefficient per entry of params; for a
\* non-empty params the sum of params[i] * coefs[i] is the gcd of all the
\* entries, folded with gcd; for the empty params the result is empty.
C24_CoefficientsOfGcd ==
    call.op = "iteratedEuclid"
    => LET params == call.params
           coefs == call.result
       IN  /\ Len(coefs) = Len(params)
           /\ params # << >> =>
                SumF([i \in 1..Len(params) |-> params[i] * coefs[i]],
                     1..Len(params)) = ReduceGcd(params)
           /\ params = << >> => coefs = << >>

\* iteratedEuclid returned the coefficients of three entries none of which
\* divides another: -6 + 4 + 3 = 1.
C24_Witness ==
    /\ call.op = "iteratedEuclid"
    /\ call.params = <<6, 4, 3>>
    /\ call.result = <<-1, 1, 1>>


(***************************************************************************)
(* Claims about the wart notation, under SpecWarts.                        *)
(***************************************************************************)
\* A division count without leading zeros followed by letters after 'a' in
\* alphabetical order, each any number of times.
Canonical(token) ==
    LET k == NumLength(token)
    IN  /\ k >= 1
        /\ (k > 1 => token[1] # Zero_)
        /\ \A i \in (k + 1)..Len(token) : token[i] > LetterA
        /\ \A i \in (k + 1)..(Len(token) - 1) : token[i] <= token[i + 1]

\* C25: for every token made of a division count followed by wart letters
\* of non-equave indices in alphabetical order, each letter any number of
\* times, toWarts(fromWarts(token, jip), jip) returns the same token.
C25_WartsRoundTrip ==
    (call.op = "toWarts" /\ Canonical(call.token))
    => call.result = call.token

\* '12bbccc' went to the val <12 18 26] and back.
C25_Witness ==
    /\ call.op = "toWarts"
    /\ call.token = <<49, 50, 98, 98, 99, 99, 99>>
    /\ call.val = <<12, 18, 26>>
    /\ call.result = call.token


(***************************************************************************)
(* Claims about resolveMonzo of an array, under SpecArrays.                *)
(***************************************************************************)
\* C26: resolveMonzo given a monzo array never modifies that array, with
\* primeMapping true or false; with primeMapping false the returned monzo
\* starts with the components of the input and is padded with zeros up to
\* the number of basis factors.
C26_ArrayNotModified ==
    (call.op = "resolveMonzo" /\ call.outcome = "returned")
    => LET interval == call.arrays.interval
           result == call.arrays.result
       IN  /\ interval = call.given
           /\ ~call.primeMapping =>
                /\ Len(result) = IF Len(call.given) > Len(call.basis)
                                 THEN Len(call.given) ELSE Len(call.basis)
                /\ \A i \in 1..Len(result) :
                     result[i] = IF i <= Len(call.given) THEN call.given[i]
                                 ELSE 0

\* With primeMapping, toMonzo_ subtracted from its copy of the array; the
\* caller's array kept its components.
C26_Witness ==
    /\ call.op = "resolveMonzo" /\ call.outcome = "returned"
    /\ call.primeMapping
    /\ call.given = <<-3, 2>>
    /\ call.arrays.primeMonzo # call.given
    /\ call.arrays.interval = call.given
    /\ call.arrays.result = <<-3, 1>>


(***************************************************************************)
(* Claims about vanishCommas, under SpecVanish.                            *)
(***************************************************************************)
\* vanishCommas returned with pure equaves.
ReturnedPure == search.pc = "vanished" /\ ~search.temperEquaves

BladeOf(n, value) ==
    LET index == SortBlades(GradeBlades(n, Min(Grades(n, value.num))))
    IN  [i \in 1..Len(index) |-> value.num[index[i]]]

\* The element scaled by k / m, each component rounded.
ScaledBy(n, value, k, m) ==
    [S \in Blades(n) |->
        IF Cardinality(S) # Min(Grades(n, value.num)) THEN 0
        ELSE Round(value.num[S] * k * Sign(m), Abs(m))]

\* C28: the rescale step of a join or meet whose element has a component m
\* of the smallest magnitude above the threshold raises 'Failed to rescale'
\* only if no k of 1..persistence qualifies, and otherwise returns the
\* element scaled by k / m for the least qualifying k, each component
\* rounded.
C28_RescaleSearch ==
    call.op \in JoinOps =>
        LET n == Dim("A")
            pair == meetJoin(n, Float(call.this.value), Float(call.other.value),
                             call.threshold, call.scale)
            value == IF call.op \in {"valJoin", "kernelMeet"}
                     THEN pair[2] ELSE pair[1]
            blade == BladeOf(n, value)
            m == MinValue(blade, value.den, call.threshold, 1, 0)
            qualifying == {k \in 1..call.persistence :
                              Good(blade, m, k, call.threshold)}
        IN  m # 0 =>
              IF qualifying = {}
              THEN call.outcome = "Failed to rescale. Try increasing persistence."
              ELSE /\ call.outcome = "returned"
                   /\ call.value = ScaledBy(n, value, Min(qualifying), m)


(***************************************************************************)
(* Claims about the generators of higher ranks, under SpecGenerators.      *)
(***************************************************************************)
\* The left contraction of X with the vector of a monzo: the sum of the
\* contractions with the basis vectors, each times its exponent.
MonzoDotL(n, monzo, X) ==
    [S \in Blades(n) |->
        SumF([i \in 1..n |-> IF monzo[i] = 0 THEN 0
                             ELSE monzo[i] * BasisDotL(n, i - 1, X)[S]],
             1..n)]

\* X contracted with the monzos one after the other: the scalar product of
\* their wedge product and X, up to the sign, when X has their grade.
RECURSIVE Measure(_, _, _)
Measure(n, monzos, X) ==
    IF monzos = << >> THEN X[{}]
    ELSE Measure(n, Tail(monzos), MonzoDotL(n, Head(monzos), X))

\* C29: for a canonized temperament of rank r > 2, numPeriodsGenerators
\* either raises 'Failed to find generators' or returns r - 1 integer
\* monzos whose wedge product, contracted with the value contracted with
\* the first basis unit, has the absolute value of the returned number of
\* periods.
C29_GeneratorsValid ==
    ( /\ search.pc = "numPeriodsGenerators"
      /\ search.canonized >= 1
      /\ ~IsNil(Dim(search.this), search.value)
      /\ getRank(Dim(search.this), search.value) > 2 ) =>
        LET n == Dim(search.this)
            value == search.value
            r == search.result
        IN  \/ r.outcome = "Failed to find generators"
            \/ /\ r.outcome = "returned"
               /\ Len(r.generators) = getRank(n, value) - 1
               /\ \A k \in 1..Len(r.generators) : Len(r.generators[k]) = n
               /\ Abs(Measure(n, r.generators, BasisDotL(n, 0, value)))
                     = r.numPeriods


====
